---- MODULE Spec2Model ----
(***************************************************************************)
(* Model of the Raft consensus core (pkg/raft/src/consensus.rs).           *)
(*                                                                         *)
(* A ConsensusModule is a record; every handler is an operator that maps   *)
(* a call context (module, Tick, abstracted clock readings) to the context *)
(* after the call.  The specifications that drive the handlers:            *)
(*   Spec        three voting members electing leaders over a network      *)
(*               that reorders, duplicates and loses messages;             *)
(*   SpecRepl    three voting members replicating a log while leadership   *)
(*               passes from one member to another;                        *)
(*   SpecFive    five voting members under a partition schedule;           *)
(*   SpecElect   three voting members, one election, every message         *)
(*               delivered once;                                           *)
(*   SpecApi     one module whose public handlers are called with          *)
(*               arbitrary requests and responses;                         *)
(*   SpecQuery   the read-only calls on a module in any bounded state;     *)
(*   SpecPropose one module elected twice while clients propose;           *)
(*   SpecStale   one module whose peers answer late;                       *)
(*   SpecFlight  one module and its outstanding AppendEntries;             *)
(*   SpecAppend  one append_entries call on a follower in any bounded      *)
(*               state;                                                    *)
(*   SpecRestart one module restarted from its persisted state;            *)
(*   SpecCommit  a Leader in any bounded state counting acknowledgements;  *)
(*   SpecSolo    a cluster of one member;                                  *)
(*   SpecQuorum  one module among five voting members;                     *)
(*   SpecLearner one module as member, learner, outsider or only member;   *)
(*   SpecBlock   block_size_remainder (pkg/core/src/lib.rs).               *)
(*                                                                         *)
(* Time is abstracted: a call carries `timedOut` (the election timer that  *)
(* was armed before this call has expired at tick.time) and `hbDue` (the   *)
(* heartbeat timers armed before this call have expired); a timer armed    *)
(* during the call has elapsed 0 and is marked by `fresh`.                 *)
(***************************************************************************)
EXTENDS Integers, Sequences, FiniteSets, TLC

VARIABLES
    node,       \* ServerId -> ConsensusModule (with its log storage)
    msgs,       \* requests and responses in flight (a message may be
                \* delivered never, once, or any number of times)
    elected,    \* history: <<id, term>> of every module seen in the Leader role
    committed,  \* history: [index, term, by] of entries a Leader committed in term `by`
    votes,      \* history: <<voter, term, candidate>> of every vote request_vote granted
    crashed,    \* ids of the modules whose last handler call panicked
    out         \* the last handler call: what was called and what it returned

vars == <<node, msgs, elected, committed, votes, crashed, out>>

(***************************************************************************)
(* Bounds                                                                  *)
(***************************************************************************)
MaxTerm == 2        \* highest term a module reaches in Spec and SpecRepl
MaxElections == 2   \* election timeouts that fire in Spec
MaxLog == 1         \* a client proposes to a Leader whose log is shorter (SpecRepl)
ApiMaxTerm == 2     \* highest term in the requests and states of SpecApi
ApiMaxLog == 1      \* longest log in the requests and states of SpecApi

None == -1          \* Option::None for Option<u64>

USIZE_MAX == 2147483647   \* stands for std::usize::MAX: above every vote count

Min(a, b) == IF a < b THEN a ELSE b
Max(a, b) == IF a > b THEN a ELSE b

(***************************************************************************)
(* Log entries                                                             *)
(***************************************************************************)
Noop == [kind |-> "Noop", op |-> "", arg |-> 0]
Command(v) == [kind |-> "Command", op |-> "", arg |-> v]
Config(o, id) == [kind |-> "Config", op |-> o, arg |-> id]

LogEntry(i, t, d) == [index |-> i, term |-> t, data |-> d]

(***************************************************************************)
(* LogStorage: entries indexed from 1, no compaction.                      *)
(***************************************************************************)
log_first_index(log) == IF Len(log) = 0 THEN None ELSE 1
log_last_index(log) == IF Len(log) = 0 THEN None ELSE Len(log)
unwrap_or(o, d) == IF o = None THEN d ELSE o
log_term(log, i) ==
    IF i = 0 THEN 0
    ELSE IF i >= 1 /\ i <= Len(log) THEN log[i].term
    ELSE None
log_append(log, e) == Append(log, e)
truncate_suffix(log, from) == SubSeq(log, 1, Min(Len(log), from - 1))

\* LogStorage::match_index(): highest durably flushed index.  A synchronous
\* storage (m.sync) has flushed every entry it holds; otherwise the host
\* advances m.durable as writes complete
log_match_index(m) ==
    IF m.sync THEN log_last_index(m.log)
    ELSE IF m.durable = 0 THEN None ELSE m.durable

LastLogIndex(m) == unwrap_or(log_last_index(m.log), 0)
LastLogTerm(m) == log_term(m.log, LastLogIndex(m))

(***************************************************************************)
(* Configuration and ConfigurationStateMachine                             *)
(***************************************************************************)
NoPending == [some |-> FALSE, last_change |-> 0, members |-> {}, learners |-> {}]

\* Configuration::apply; bad = the panic "Can not change member to learner"
Configuration_apply(c, change) ==
    IF change.op = "AddLearner" THEN
        [members |-> c.members, learners |-> c.learners \cup {change.arg},
         bad |-> change.arg \in c.members]
    ELSE IF change.op = "AddMember" THEN
        [members |-> c.members \cup {change.arg}, learners |-> c.learners \ {change.arg},
         bad |-> FALSE]
    ELSE
        [members |-> c.members \ {change.arg}, learners |-> c.learners \ {change.arg},
         bad |-> FALSE]

config_iter(c) == c.members \cup c.learners

\* ConfigurationStateMachine::apply(entry, commit_index)
config_apply(cfg, e, commit_index) ==
    IF e.data.kind # "Config" THEN cfg
    ELSE LET v == Configuration_apply(cfg.value, e.data) IN
         [value |-> [members |-> v.members, learners |-> v.learners],
          pending |-> IF e.index > commit_index
                      THEN [some |-> TRUE, last_change |-> e.index,
                            members |-> cfg.value.members, learners |-> cfg.value.learners]
                      ELSE cfg.pending]

config_apply_panics(cfg, e) ==
    e.data.kind = "Config" /\ Configuration_apply(cfg.value, e.data).bad

\* ConfigurationStateMachine::commit(commit_index): TRUE iff a pending change resolved
config_commit_resolves(cfg, commit_index) ==
    cfg.pending.some /\ cfg.pending.last_change <= commit_index

config_commit(cfg, commit_index) ==
    IF config_commit_resolves(cfg, commit_index)
    THEN [cfg EXCEPT !.pending = NoPending]
    ELSE cfg

\* ConfigurationStateMachine::revert(from_index)
config_revert(cfg, from) ==
    IF cfg.pending.some /\ cfg.pending.last_change >= from
    THEN [value |-> [members |-> cfg.pending.members, learners |-> cfg.pending.learners],
          pending |-> NoPending]
    ELSE cfg

(***************************************************************************)
(* Role state                                                              *)
(***************************************************************************)
new_follower == [role |-> "Follower", last_leader_id |-> None]

ServerProgress_new(lli) ==
    [next_index |-> lli + 1, match_index |-> 0, sent |-> FALSE, request_pending |-> FALSE]

(***************************************************************************)
(* Tick and the call context                                               *)
(***************************************************************************)
Tick_empty ==
    [meta |-> FALSE, config |-> FALSE, new_entries |-> FALSE,
     messages |-> <<>>, next_tick |-> "None"]

NoRet == [kind |-> "None"]

\* The context of one handler call
Call(m, timedOut, hbDue) ==
    [m |-> m, t |-> Tick_empty, timedOut |-> timedOut, hbDue |-> hbDue,
     fresh |-> FALSE, panic |-> FALSE, ret |-> NoRet]

Panic(s) == [s EXCEPT !.panic = TRUE]
write_meta(s) == [s EXCEPT !.t.meta = TRUE]
write_config(s) == [s EXCEPT !.t.config = TRUE]
send(s, msg) == [s EXCEPT !.t.messages = Append(@, msg)]
set_next_tick(s, d) == [s EXCEPT !.t.next_tick = d]

(***************************************************************************)
(* Leader-side helpers                                                     *)
(***************************************************************************)
\* A slip in can_be_leader: the log is not compared with commit_index
can_be_leader_always(m) == TRUE

can_be_leader(m) == LastLogIndex(m) >= m.commit_index

\* A slip in majority_size: half of the members, rounded down
majority_size_half(m) ==
    IF Cardinality(m.config.value.members) = 0 THEN USIZE_MAX
    ELSE Cardinality(m.config.value.members) \div 2

majority_size(m) ==
    IF Cardinality(m.config.value.members) = 0 THEN USIZE_MAX
    ELSE (Cardinality(m.config.value.members) \div 2) + 1

\* A slip in the count: the leader does not count its own log
commit_votes_peers_only(m, ci) ==
    Cardinality({x \in DOMAIN m.state.servers :
                    /\ x \in m.config.value.members
                    /\ x # m.id
                    /\ m.state.servers[x].match_index >= ci})

\* Votes for index ci: the leader itself once ci is durable locally, and each
\* other voting member whose progress has matched ci
commit_votes(m, ci) ==
    (IF unwrap_or(log_match_index(m), 0) >= ci THEN 1 ELSE 0)
    + Cardinality({x \in DOMAIN m.state.servers :
                      /\ x \in m.config.value.members
                      /\ x # m.id
                      /\ m.state.servers[x].match_index >= ci})

\* A slip in find_next_commit_index: the term of the entry is not looked at
find_next_commit_index_any_term(m) ==
    LET hits == {ci \in (m.commit_index + 1)..LastLogIndex(m) :
                    commit_votes(m, ci) >= majority_size(m)}
    IN IF hits = {} THEN None ELSE CHOOSE ci \in hits : \A o \in hits : o <= ci

\* The loop walks ci from the last index down to commit_index + 1, breaks at
\* the first entry of an older term and returns the first ci of the current
\* term that has a majority
find_next_commit_index(m) ==
    LET lli == LastLogIndex(m)
        visited(ci) == \A j \in (ci + 1)..lli : log_term(m.log, j) >= m.current_term
        hits == {ci \in (m.commit_index + 1)..lli :
                    /\ visited(ci)
                    /\ log_term(m.log, ci) = m.current_term
                    /\ commit_votes(m, ci) >= majority_size(m)}
    IN IF hits = {} THEN None ELSE CHOOSE ci \in hits : \A o \in hits : o <= ci

\* A slip in update_commited: the Tick is not told that the metadata changed
update_commited_unmarked(s, index) ==
    IF ~(index > s.m.commit_index) THEN Panic(s)
    ELSE IF config_commit_resolves(s.m.config, index)
    THEN write_config([s EXCEPT !.m.commit_index = index,
                                !.m.config = config_commit(@, index)])
    ELSE [s EXCEPT !.m.commit_index = index]

update_commited(s, index) ==
    IF ~(index > s.m.commit_index) THEN Panic(s)
    ELSE LET s1 == write_meta([s EXCEPT !.m.commit_index = index])
         IN IF config_commit_resolves(s1.m.config, index)
            THEN write_config([s1 EXCEPT !.m.config = config_commit(@, index)])
            ELSE s1

RECURSIVE SortedSeq(_)
SortedSeq(S) ==
    IF S = {} THEN <<>>
    ELSE LET x == CHOOSE y \in S : \A z \in S : y <= z
         IN <<x>> \o SortedSeq(S \ {x})

\* new_request closure of replicate_entries
new_request(m, prev_log_index) ==
    [term |-> m.current_term,
     leader_id |-> m.id,
     prev_log_index |-> prev_log_index,
     prev_log_term |-> log_term(m.log, prev_log_index),
     entries |-> SubSeq(m.log, prev_log_index + 1, LastLogIndex(m)),
     leader_commit |-> m.commit_index]

AppendEntriesMsg(to, req, last) ==
    [to |-> to, type |-> "AppendEntries", req |-> req, last_index |-> last]
RequestVoteMsg(to, req) ==
    [to |-> to, type |-> "RequestVote", req |-> req, last_index |-> 0]

\* A slip in replicate_entries: the request sent is not marked as pending
replicate_entries_unflagged(s) ==
    IF s.m.state.role # "Leader" THEN Panic(s)
    ELSE
    LET m == s.m
        lli == LastLogIndex(m)
        ids == config_iter(m.config.value) \ {m.id}
        old == m.state.servers
        prog0 == [x \in (DOMAIN old) \cup ids |->
                     IF x \in DOMAIN old THEN old[x] ELSE ServerProgress_new(lli)]
        skip(x) == \/ prog0[x].request_pending
                   \/ (prog0[x].match_index >= lli /\ prog0[x].sent /\ ~s.hbDue)
        targets == {x \in ids : ~skip(x)}
        prog1 == [x \in DOMAIN prog0 |->
                     IF x \in targets
                     THEN [prog0[x] EXCEPT !.sent = TRUE]
                     ELSE prog0[x]]
        key(x) == prog0[x].next_index - 1
        keys == {key(x) : x \in targets}
        \* next_index - 1 underflows, or log.term(prev).unwrap() finds no entry
        bad == \E k \in keys : k < 0 \/ log_term(m.log, k) = None
        keyseq == SortedSeq(keys)
        out_msgs == [n \in 1..Len(keyseq) |->
                        AppendEntriesMsg({x \in targets : key(x) = keyseq[n]},
                                         new_request(m, keyseq[n]), lli)]
        s1 == [s EXCEPT !.m.state.servers = prog1]
    IN IF bad THEN Panic(s1)
       ELSE [s1 EXCEPT !.t.messages = @ \o out_msgs]

replicate_entries(s) ==
    IF s.m.state.role # "Leader" THEN Panic(s)
    ELSE
    LET m == s.m
        lli == LastLogIndex(m)
        ids == config_iter(m.config.value) \ {m.id}
        old == m.state.servers
        prog0 == [x \in (DOMAIN old) \cup ids |->
                     IF x \in DOMAIN old THEN old[x] ELSE ServerProgress_new(lli)]
        skip(x) == \/ prog0[x].request_pending
                   \/ (prog0[x].match_index >= lli /\ prog0[x].sent /\ ~s.hbDue)
        targets == {x \in ids : ~skip(x)}
        prog1 == [x \in DOMAIN prog0 |->
                     IF x \in targets
                     THEN [prog0[x] EXCEPT !.request_pending = TRUE, !.sent = TRUE]
                     ELSE prog0[x]]
        key(x) == prog0[x].next_index - 1
        keys == {key(x) : x \in targets}
        \* next_index - 1 underflows, or log.term(prev).unwrap() finds no entry
        bad == \E k \in keys : k < 0 \/ log_term(m.log, k) = None
        keyseq == SortedSeq(keys)
        out_msgs == [n \in 1..Len(keyseq) |->
                        AppendEntriesMsg({x \in targets : key(x) = keyseq[n]},
                                         new_request(m, keyseq[n]), lli)]
        s1 == [s EXCEPT !.m.state.servers = prog1]
    IN IF bad THEN Panic(s1)
       ELSE [s1 EXCEPT !.t.messages = @ \o out_msgs]

\* A slip in the request: the vote is asked of one member only
perform_election_single_peer(s) ==
    LET m == s.m
        req == [term |-> m.current_term, candidate_id |-> m.id,
                last_log_index |-> LastLogIndex(m), last_log_term |-> LastLogTerm(m)]
        ids == m.config.value.members \ {m.id}
    IN IF ids = {} THEN s
       ELSE send(s, RequestVoteMsg({CHOOSE x \in ids : \A y \in ids : x <= y}, req))

perform_election(s) ==
    LET m == s.m
        req == [term |-> m.current_term, candidate_id |-> m.id,
                last_log_index |-> LastLogIndex(m), last_log_term |-> LastLogTerm(m)]
        ids == m.config.value.members \ {m.id}
    IN IF ids = {} THEN s ELSE send(s, RequestVoteMsg(ids, req))

(***************************************************************************)
(* cycle, start_election, propose_entry                                    *)
(***************************************************************************)
\* The ServerState::Leader arm of cycle: commit, replicate, choose the next tick
leader_commit(s, next_commit_index) ==
    IF next_commit_index # None THEN update_commited(s, next_commit_index) ELSE s

leader_replicate(s) == IF s.panic THEN s ELSE replicate_entries(s)

leader_next_tick(s) ==
    IF s.panic THEN s
    ELSE set_next_tick(s,
             IF Cardinality(s.m.config.value.members)
                + Cardinality(s.m.config.value.learners) = 1
             THEN "2s" ELSE "heartbeat")

\* A slip in new_entry: the entry carries the index of the log's last entry
new_entry_same_index(m, data) == LogEntry(LastLogIndex(m), m.current_term, data)

\* A slip in new_entry: the entry carries the term of the log's last entry
\* (term 1 in an empty log) in place of the current term
new_entry_stale_term(m, data) ==
    LogEntry(LastLogIndex(m) + 1, Max(1, LastLogTerm(m)), data)

\* The entry propose_entry builds: the next index, the current term
new_entry(m, data) == LogEntry(LastLogIndex(m) + 1, m.current_term, data)

\* A slip in propose_entry: a pending configuration change blocks nothing
config_change_unchecked(m, data) == FALSE

\* A slip in the hint: the leader the follower last heard from is not looked at
leader_hint_voted_for(m) == m.voted_for

\* The leader_hint of ProposeError::NotLeader
leader_hint(m) ==
    IF m.state.role = "Follower"
    THEN IF m.state.last_leader_id # None THEN m.state.last_leader_id ELSE m.voted_for
    ELSE None

\* propose_entry: a Config proposal while self.config.pending is Some
config_change_pending(m, data) == data.kind = "Config" /\ m.config.pending.some

RECURSIVE cycle(_)
RECURSIVE start_election(_)
RECURSIVE propose_entry(_, _)

NotLeader(hint) == [kind |-> "NotLeader", index |-> 0, term |-> 0, leader_hint |-> hint]
RetryAfter(i, t) == [kind |-> "RetryAfter", index |-> i, term |-> t, leader_hint |-> None]
Proposed(i, t) == [kind |-> "Ok", index |-> i, term |-> t, leader_hint |-> None]

propose_entry(s, data) ==
    IF s.panic THEN s
    ELSE
    LET m == s.m IN
    IF m.state.role = "Leader" THEN
        LET index == LastLogIndex(m) + 1
            term == m.current_term
        IN IF ~(term > 0) THEN Panic(s)
           ELSE IF config_change_pending(m, data) THEN
               IF log_term(m.log, m.config.pending.last_change) = None THEN Panic(s)
               ELSE [s EXCEPT !.ret = RetryAfter(m.config.pending.last_change,
                                                 log_term(m.log, m.config.pending.last_change))]
           ELSE
               LET e == new_entry(m, data)
                   s1 == [s EXCEPT !.t.new_entries = TRUE,
                                   !.m.log = log_append(@, e)]
               IN IF config_apply_panics(m.config, e) THEN Panic(s1)
                  ELSE LET s2 == [s1 EXCEPT !.m.config = config_apply(@, e, m.commit_index)]
                           s3 == cycle(s2)
                       IN [s3 EXCEPT !.ret = Proposed(e.index, e.term)]
    ELSE [s EXCEPT !.ret = NotLeader(leader_hint(m))]

propose_noop(s) == propose_entry(s, Noop)
propose_command(s, v) == propose_entry(s, Command(v))

\* .expect(...) on the result of a proposal
expect_ok(s) == IF s.panic \/ s.ret.kind = "Ok" THEN s ELSE Panic(s)

\* A slip in must_increment: every election takes a new term
start_election_new_term(s) ==
    IF s.panic THEN s
    ELSE IF ~can_be_leader(s.m) THEN Panic(s)
    ELSE
    LET m == s.m
        s1 == write_meta([s EXCEPT !.m.current_term = @ + 1, !.m.voted_for = m.id])
        s2 == [s1 EXCEPT !.m.state = [role |-> "Candidate", votes_received |-> {},
                                      some_rejected |-> FALSE],
                         !.fresh = TRUE]
    IN cycle(perform_election(s2))

\* A slip in start_election: the new term is entered without a vote for self
start_election_unvoted(s) ==
    IF s.panic THEN s
    ELSE IF ~can_be_leader(s.m) THEN Panic(s)
    ELSE
    LET m == s.m
        must_increment ==
            IF m.state.role = "Candidate" THEN m.state.some_rejected ELSE TRUE
        s1 == IF must_increment
              THEN write_meta([s EXCEPT !.m.current_term = @ + 1, !.m.voted_for = None])
              ELSE s
        s2 == [s1 EXCEPT !.m.state = [role |-> "Candidate", votes_received |-> {},
                                      some_rejected |-> FALSE],
                         !.fresh = TRUE]
    IN cycle(perform_election(s2))

start_election(s) ==
    IF s.panic THEN s
    ELSE IF ~can_be_leader(s.m) THEN Panic(s)
    ELSE
    LET m == s.m
        must_increment ==
            IF m.state.role = "Candidate" THEN m.state.some_rejected ELSE TRUE
        s1 == IF must_increment
              THEN write_meta([s EXCEPT !.m.current_term = @ + 1, !.m.voted_for = m.id])
              ELSE s
        s2 == [s1 EXCEPT !.m.state = [role |-> "Candidate", votes_received |-> {},
                                      some_rejected |-> FALSE],
                         !.fresh = TRUE]
    IN cycle(perform_election(s2))

\* A slip in the guard of cycle: a learner is taken for an active server
cycle_inactive_unless_learner(m) ==
    \/ Cardinality(m.config.value.members) = 0
    \/ m.id \notin config_iter(m.config.value)

\* A slip in the guard of cycle: only the empty configuration is inactive
cycle_inactive_if_empty(m) == Cardinality(m.config.value.members) = 0

\* The guard of cycle: nothing to do without members or outside of them
cycle_inactive(m) ==
    \/ Cardinality(m.config.value.members) = 0
    \/ m.id \notin m.config.value.members

cycle(s) ==
    IF s.panic THEN s
    ELSE
    LET m == s.m
        members == m.config.value.members
        elapsed == s.timedOut /\ ~s.fresh
    IN
    IF cycle_inactive(m) THEN set_next_tick(s, "1s")
    ELSE IF m.state.role = "Follower" THEN
        IF ~can_be_leader(m) THEN
            IF Cardinality(members) = 1 THEN Panic(s)
            ELSE [s EXCEPT !.m.state = new_follower, !.fresh = TRUE]
        ELSE IF elapsed \/ Cardinality(members) = 1 THEN start_election(s)
        ELSE set_next_tick(s, "election")
    ELSE IF m.state.role = "Candidate" THEN
        IF 1 + Cardinality(m.state.votes_received) >= majority_size(m) THEN
            LET lli == LastLogIndex(m)
                servers == [x \in config_iter(m.config.value) \ {m.id} |->
                               ServerProgress_new(lli)]
                s1 == [s EXCEPT !.m.state = [role |-> "Leader", servers |-> servers]]
                s2 == IF m.commit_index < lli
                      THEN [expect_ok(propose_noop(s1)) EXCEPT !.ret = s.ret]
                      ELSE s1
            IN cycle(s2)
        ELSE IF elapsed THEN start_election(s)
        ELSE set_next_tick(s, "election")
    ELSE leader_next_tick(leader_replicate(leader_commit(s, find_next_commit_index(m))))

become_follower(s) ==
    cycle([s EXCEPT !.m.state = new_follower, !.fresh = TRUE])

\* A slip in observe_term: any other term is adopted, not only a higher one
observe_term_any(s, term) ==
    IF term # s.m.current_term
    THEN become_follower(write_meta([s EXCEPT !.m.current_term = term,
                                              !.m.voted_for = None]))
    ELSE s

\* A slip in observe_term: the vote of the old term is kept
observe_term_keeps_vote(s, term) ==
    IF term > s.m.current_term
    THEN become_follower(write_meta([s EXCEPT !.m.current_term = term]))
    ELSE s

observe_term(s, term) ==
    IF term > s.m.current_term
    THEN become_follower(write_meta([s EXCEPT !.m.current_term = term,
                                              !.m.voted_for = None]))
    ELSE s

(***************************************************************************)
(* Vote handling                                                           *)
(***************************************************************************)
RequestVoteResponse(term, granted) ==
    [kind |-> "Vote", term |-> term, vote_granted |-> granted]

\* A slip in should_grant: the vote already cast in this term is not looked at
should_grant_any(m, req) ==
    IF req.term < m.current_term THEN FALSE
    ELSE \/ req.last_log_term > LastLogTerm(m)
         \/ (req.last_log_term = LastLogTerm(m)
             /\ req.last_log_index >= LastLogIndex(m))

\* A slip in should_grant: the logs are compared by their length alone
should_grant_longer_log(m, req) ==
    IF req.term < m.current_term THEN FALSE
    ELSE IF ~(req.last_log_index >= LastLogIndex(m)) THEN FALSE
    ELSE IF req.term > m.current_term THEN TRUE
    ELSE IF m.voted_for # None THEN m.voted_for = req.candidate_id
    ELSE TRUE

\* the should_grant closure of pre_vote
should_grant(m, req) ==
    IF req.term < m.current_term THEN FALSE
    ELSE LET up_to_date ==
                 \/ req.last_log_term > LastLogTerm(m)
                 \/ (req.last_log_term = LastLogTerm(m)
                     /\ req.last_log_index >= LastLogIndex(m))
         IN IF ~up_to_date THEN FALSE
            ELSE IF req.term > m.current_term THEN TRUE
            ELSE IF m.voted_for # None THEN m.voted_for = req.candidate_id
            ELSE TRUE

pre_vote(m, req) == RequestVoteResponse(m.current_term, should_grant(m, req))

\* A slip in request_vote: the granted vote is not recorded in voted_for
request_vote_grant_unrecorded(s, req, res) ==
    IF s.panic THEN s
    ELSE IF res.vote_granted THEN
        IF s.m.state.role # "Follower" THEN Panic(s)
        ELSE [s EXCEPT !.fresh = TRUE, !.ret = res]
    ELSE [s EXCEPT !.ret = res]

\* request_vote after its observe_term, with the answer of pre_vote
request_vote_grant(s, req, res) ==
    IF s.panic THEN s
    ELSE IF res.vote_granted THEN
        IF s.m.state.role # "Follower" THEN Panic(s)
        ELSE write_meta([s EXCEPT !.fresh = TRUE,
                                  !.m.voted_for = req.candidate_id,
                                  !.ret = res])
    ELSE [s EXCEPT !.ret = res]

request_vote_observed(s, req) == request_vote_grant(s, req, pre_vote(s.m, req))

request_vote(s, req) == request_vote_observed(observe_term(s, req.term), req)

\* request_vote_callback after its observe_term
request_vote_callback_observed(s, from_id, resp) ==
    IF s.panic THEN s
    ELSE IF s.m.current_term # resp.term THEN s
    ELSE IF from_id = s.m.id THEN s
    ELSE IF s.m.state.role = "Candidate" THEN
        cycle(IF resp.vote_granted
              THEN [s EXCEPT !.m.state.votes_received = @ \cup {from_id}]
              ELSE [s EXCEPT !.m.state.some_rejected = TRUE])
    ELSE s

request_vote_callback(s, from_id, resp) ==
    request_vote_callback_observed(observe_term(s, resp.term), from_id, resp)

(***************************************************************************)
(* Replication responses                                                   *)
(***************************************************************************)
\* The progress of the responding server after the response
progress_update(progress, last_index, resp) ==
    IF resp.success THEN
        IF last_index > progress.match_index
        THEN [progress EXCEPT !.match_index = last_index,
                              !.next_index = last_index + 1,
                              !.request_pending = FALSE]
        ELSE [progress EXCEPT !.request_pending = FALSE]
    ELSE IF resp.last_log_index # None
        THEN [progress EXCEPT !.next_index = resp.last_log_index + 1,
                              !.request_pending = FALSE]
        ELSE [progress EXCEPT !.next_index = @ - 1, !.request_pending = FALSE]

\* next_index -= 1 on a next_index of 0
progress_underflow(progress, resp) ==
    ~resp.success /\ resp.last_log_index = None /\ progress.next_index = 0

\* the should_noop test of append_entries_callback
should_noop(m, resp) ==
    /\ resp.success
    /\ resp.last_log_index # None
    /\ resp.last_log_index > LastLogIndex(m)
    /\ LastLogTerm(m) # m.current_term

\* append_entries_callback after the progress update
append_entries_callback_finish(s, noop) ==
    IF noop THEN [expect_ok(propose_noop(s)) EXCEPT !.ret = NoRet]
    ELSE cycle(s)

\* append_entries_callback after its observe_term
append_entries_callback_observed(s, from_id, last_index, resp) ==
    IF s.panic THEN s
    ELSE IF s.m.state.role = "Leader" THEN
        IF from_id \notin DOMAIN s.m.state.servers THEN Panic(s)
        ELSE IF progress_underflow(s.m.state.servers[from_id], resp) THEN Panic(s)
        ELSE append_entries_callback_finish(
                 [s EXCEPT !.m.state.servers[from_id] =
                               progress_update(@, last_index, resp)],
                 should_noop(s.m, resp))
    ELSE s

append_entries_callback(s, from_id, last_index, resp) ==
    append_entries_callback_observed(observe_term(s, resp.term),
                                     from_id, last_index, resp)

append_entries_noresponse(s, from_id) ==
    IF s.m.state.role = "Leader" THEN
        IF from_id \notin DOMAIN s.m.state.servers THEN Panic(s)
        ELSE [s EXCEPT !.m.state.servers[from_id].request_pending = FALSE]
    ELSE s

(***************************************************************************)
(* append_entries                                                          *)
(***************************************************************************)
AppendEntriesResponse(term, success, lli) ==
    [kind |-> "Ok", term |-> term, success |-> success, last_log_index |-> lli,
     pos_term |-> None, pos_index |-> None]
AppendEntriesOk(term, lli, pos_term, pos_index) ==
    [kind |-> "Ok", term |-> term, success |-> TRUE, last_log_index |-> lli,
     pos_term |-> pos_term, pos_index |-> pos_index]
AppendEntriesErr(why) ==
    [kind |-> "Err", term |-> None, success |-> FALSE, last_log_index |-> None,
     pos_term |-> None, pos_index |-> None, why |-> why]

\* Sanity check 1 and 2 of the request's batch
batch_follows(req) ==
    Len(req.entries) >= 1 =>
        ~(req.entries[1].term < req.prev_log_term
          \/ req.entries[1].index # req.prev_log_index + 1)
batch_sorted(req) ==
    \A i \in 1..(Len(req.entries) - 1) :
        ~(req.entries[i].term > req.entries[i + 1].term
          \/ req.entries[i + 1].index # req.entries[i].index + 1)

\* A slip in first_new: no entry of the batch is taken to be in the log
first_new_none(log, entries) == 0

\* first_new: how many leading entries of the batch are already in the log
first_new_of(log, entries) ==
    LET same(i) == log_term(log, entries[i].index) = entries[i].term
        ks == {k \in 0..Len(entries) : \A i \in 1..k : same(i)}
    IN CHOOSE k \in ks : \A o \in ks : o <= k

\* the append loop: each new entry is appended and applied to the configuration
RECURSIVE append_new(_, _, _)
append_new(s, entries, k) ==
    IF s.panic \/ k > Len(entries) THEN s
    ELSE LET e == entries[k]
             s1 == [s EXCEPT !.t.new_entries = TRUE, !.m.log = log_append(@, e)]
         IN IF config_apply_panics(s.m.config, e) THEN Panic(s1)
            ELSE append_new([s1 EXCEPT !.m.config = config_apply(@, e, s.m.commit_index)],
                            entries, k + 1)

\* the response to a request whose entries are all in the log
append_entries_respond(s, last_new, last_new_term) ==
    IF s.panic THEN s
    ELSE [s EXCEPT !.ret = AppendEntriesOk(s.m.current_term,
                               IF LastLogIndex(s.m) # last_new
                               THEN LastLogIndex(s.m) ELSE None,
                               last_new_term, last_new)]

\* A slip in the commit step: commit_index is set to min(leader_commit,
\* last_new) whether or not that is above the local commit_index
append_entries_commit_unguarded(s, req, last_new, last_new_term) ==
    IF s.panic THEN s
    ELSE append_entries_respond(
             write_meta([s EXCEPT !.m.commit_index = Min(req.leader_commit, last_new)]),
             last_new, last_new_term)

\* the commit step: commit_index follows the leader's, up to the last new entry
append_entries_commit(s, req, last_new, last_new_term) ==
    IF s.panic THEN s
    ELSE append_entries_respond(
             IF req.leader_commit > s.m.commit_index
                /\ Min(req.leader_commit, last_new) > s.m.commit_index
             THEN update_commited(s, Min(req.leader_commit, last_new))
             ELSE s,
             last_new, last_new_term)

\* the append step, from the first entry of the batch that is not in the log
append_entries_append(s, req, first_new) ==
    IF first_new < Len(req.entries)
       /\ (req.entries[first_new + 1].index # LastLogIndex(s.m) + 1
           \/ req.entries[first_new + 1].term < LastLogTerm(s.m))
    THEN [s EXCEPT !.ret = AppendEntriesErr("Next new entry is not immediately after our last local one")]
    ELSE append_entries_commit(
             append_new(s, req.entries, first_new + 1), req,
             IF Len(req.entries) - first_new > 0
             THEN req.entries[Len(req.entries)].index ELSE req.prev_log_index,
             IF Len(req.entries) - first_new > 0
             THEN req.entries[Len(req.entries)].term ELSE req.prev_log_term)

\* A slip in the conflict step: a conflicting entry truncates the log wherever it is
append_entries_conflict_unguarded(s, req, first_new) ==
    IF first_new < Len(req.entries)
       /\ log_term(s.m.log, req.entries[first_new + 1].index) # None
    THEN append_entries_append(
             [s EXCEPT !.m.config = config_revert(@, req.entries[first_new + 1].index),
                       !.m.log = truncate_suffix(@, req.entries[first_new + 1].index),
                       !.m.durable = Min(@, req.entries[first_new + 1].index - 1)],
             req, first_new)
    ELSE append_entries_append(s, req, first_new)

\* A slip in the conflict step: the entry at commit_index itself is not protected
append_entries_conflict_off_by_one(s, req, first_new) ==
    IF first_new < Len(req.entries)
       /\ log_term(s.m.log, req.entries[first_new + 1].index) # None
    THEN IF s.m.commit_index > req.entries[first_new + 1].index
         THEN [s EXCEPT !.ret = AppendEntriesErr("Refusing to truncate changes already locally committed")]
         ELSE append_entries_append(
                  [s EXCEPT !.m.config = config_revert(@, req.entries[first_new + 1].index),
                            !.m.log = truncate_suffix(@, req.entries[first_new + 1].index),
                            !.m.durable = Min(@, req.entries[first_new + 1].index - 1)],
                  req, first_new)
    ELSE append_entries_append(s, req, first_new)

\* A slip in the conflict step: the configuration is not reverted when the log
\* is truncated
append_entries_conflict_unreverted(s, req, first_new) ==
    IF first_new < Len(req.entries)
       /\ log_term(s.m.log, req.entries[first_new + 1].index) # None
    THEN IF s.m.commit_index >= req.entries[first_new + 1].index
         THEN [s EXCEPT !.ret = AppendEntriesErr("Refusing to truncate changes already locally committed")]
         ELSE append_entries_append(
                  [s EXCEPT !.m.log = truncate_suffix(@, req.entries[first_new + 1].index),
                            !.m.durable = Min(@, req.entries[first_new + 1].index - 1)],
                  req, first_new)
    ELSE append_entries_append(s, req, first_new)

\* the conflict step: an entry of the batch that contradicts the log truncates
\* the log from that index, unless the index is committed
append_entries_conflict(s, req, first_new) ==
    IF first_new < Len(req.entries)
       /\ log_term(s.m.log, req.entries[first_new + 1].index) # None
    THEN IF s.m.commit_index >= req.entries[first_new + 1].index
         THEN [s EXCEPT !.ret = AppendEntriesErr("Refusing to truncate changes already locally committed")]
         ELSE append_entries_append(
                  [s EXCEPT !.m.config = config_revert(@, req.entries[first_new + 1].index),
                            !.m.log = truncate_suffix(@, req.entries[first_new + 1].index),
                            !.m.durable = Min(@, req.entries[first_new + 1].index - 1)],
                  req, first_new)
    ELSE append_entries_append(s, req, first_new)

append_entries_tail(s, req) ==
    append_entries_conflict(s, req, first_new_of(s.m.log, req.entries))

\* the checks of the request against the log
append_entries_checks(s, req) ==
    IF ~batch_follows(req)
    THEN [s EXCEPT !.ret = AppendEntriesErr("Received previous entry does not follow")]
    ELSE IF ~batch_sorted(req)
    THEN [s EXCEPT !.ret = AppendEntriesErr("Received entries are unsorted, duplicates, or inconsistent")]
    ELSE IF req.prev_log_index < unwrap_or(log_first_index(s.m.log), 1) - 1
    THEN [s EXCEPT !.ret = AppendEntriesErr("Requested previous log entry is before the start of the log")]
    ELSE IF log_term(s.m.log, req.prev_log_index) = None
    THEN [s EXCEPT !.ret = AppendEntriesResponse(s.m.current_term, FALSE, LastLogIndex(s.m))]
    ELSE IF log_term(s.m.log, req.prev_log_index) # req.prev_log_term
    THEN [s EXCEPT !.ret = AppendEntriesResponse(s.m.current_term, FALSE, s.m.commit_index)]
    ELSE append_entries_tail(s, req)

\* A slip in the role check: a Leader accepts the request of another leader
\* of its own term
append_entries_role_any_leader(s, req) ==
    IF s.panic THEN s
    ELSE IF req.term < s.m.current_term
    THEN [s EXCEPT !.ret = AppendEntriesResponse(s.m.current_term, FALSE, None)]
    ELSE IF s.m.state.role = "Candidate"
    THEN [s EXCEPT !.ret = AppendEntriesErr("How can we still be a candidate right now?")]
    ELSE append_entries_checks(
             IF s.m.state.role = "Follower"
             THEN [s EXCEPT !.fresh = TRUE, !.m.state.last_leader_id = req.leader_id]
             ELSE s,
             req)

\* the checks of the request's term and of the role; a Follower records the
\* heartbeat and the leader before the request is looked at any further
append_entries_role(s, req) ==
    IF s.panic THEN s
    ELSE IF req.term < s.m.current_term
    THEN [s EXCEPT !.ret = AppendEntriesResponse(s.m.current_term, FALSE, None)]
    ELSE IF s.m.state.role = "Leader" /\ req.leader_id # s.m.id
    THEN [s EXCEPT !.ret = AppendEntriesErr("append entries from another leader in the same term")]
    ELSE IF s.m.state.role = "Candidate"
    THEN [s EXCEPT !.ret = AppendEntriesErr("How can we still be a candidate right now?")]
    ELSE append_entries_checks(
             IF s.m.state.role = "Follower"
             THEN [s EXCEPT !.fresh = TRUE, !.m.state.last_leader_id = req.leader_id]
             ELSE s,
             req)

\* append_entries after its observe_term: a Candidate of the request's term steps down
append_entries_observed(s, req) ==
    append_entries_role(
        IF ~s.panic /\ req.term = s.m.current_term /\ s.m.state.role = "Candidate"
        THEN become_follower(s)
        ELSE s,
        req)

append_entries(s, req) == append_entries_observed(observe_term(s, req.term), req)

timeout_now(s) == start_election(s)

(***************************************************************************)
(* Construction (ConsensusModule::new with default Metadata, an empty log  *)
(* and a configuration snapshot at index 0)                                *)
(***************************************************************************)
NewModule(id, members, learners, sync) ==
    [id |-> id, sync |-> sync,
     current_term |-> 0, voted_for |-> None, commit_index |-> 0,
     log |-> <<>>, durable |-> 0,
     config |-> [value |-> [members |-> members, learners |-> learners],
                 pending |-> NoPending],
     state |-> new_follower]

(***************************************************************************)
(* The host: it applies a Tick by sending its messages, one copy per       *)
(* recipient, and hands every response to the sender's callback.           *)
(***************************************************************************)
NoOut == [op |-> "none", id |-> 0, req |-> [term |-> 0], ret |-> NoRet,
          tick |-> Tick_empty, fresh |-> FALSE, panic |-> FALSE]

Outcome(op, s) ==
    [op |-> op, id |-> s.m.id, req |-> [term |-> 0], ret |-> s.ret,
     tick |-> [s.t EXCEPT !.messages = <<>>],
     fresh |-> s.fresh, panic |-> s.panic]

Outbox(i, tick) ==
    UNION {{[type |-> tick.messages[n].type, from |-> i, to |-> to,
             req |-> tick.messages[n].req, last_index |-> tick.messages[n].last_index]
               : to \in tick.messages[n].to}
           : n \in 1..Len(tick.messages)}

VoteReply(from, to, resp) ==
    [type |-> "RequestVoteResponse", from |-> from, to |-> to, resp |-> resp]
AppendReply(from, to, last, resp) ==
    [type |-> "AppendEntriesResponse", from |-> from, to |-> to,
     last_index |-> last,
     resp |-> [term |-> resp.term, success |-> resp.success,
               last_log_index |-> resp.last_log_index]]

\* Entries a Leader committed, with the term it committed them in
Commits(before, after) ==
    IF after.state.role = "Leader" /\ after.commit_index > before.commit_index
    THEN {[index |-> k, term |-> after.log[k].term, by |-> after.current_term]
            : k \in (before.commit_index + 1)..Min(after.commit_index, Len(after.log))}
    ELSE {}

\* The vote a request_vote call granted: voter, term, candidate
Grant(i, candidate_id, res) ==
    IF res.vote_granted THEN {<<i, res.term, candidate_id>>} ELSE {}

\* The responses the host sends back for the request msg once the handler
\* has returned; a handler that returns Err closes the connection instead
NoMsg == [type |-> "none"]

Replies(s, msg) ==
    IF msg.type = "RequestVote" THEN {VoteReply(msg.to, msg.from, s.ret)}
    ELSE IF msg.type = "AppendEntries" /\ s.ret.kind = "Ok"
    THEN {AppendReply(msg.to, msg.from, msg.last_index, s.ret)}
    ELSE {}

\* The effect on module i of one handler call that ended in s, made for msg;
\* op names the call in out, and an empty op leaves out blank; the messages
\* in taken leave the network
Apply(i, s, msg, op, taken) ==
    /\ IF s.panic
       THEN /\ crashed' = crashed \cup {i}
            /\ UNCHANGED <<node, msgs, elected, committed, votes>>
       ELSE /\ node' = [node EXCEPT ![i] = s.m]
            /\ msgs' = (msgs \ taken) \cup Outbox(i, s.t) \cup Replies(s, msg)
            /\ elected' = IF s.m.state.role = "Leader"
                          THEN elected \cup {<<i, s.m.current_term>>}
                          ELSE elected
            /\ committed' = committed \cup Commits(node[i], s.m)
            /\ votes' = votes \cup
                    (IF msg.type = "RequestVote"
                     THEN Grant(i, msg.req.candidate_id, s.ret) ELSE {})
            /\ UNCHANGED crashed
    /\ out' = IF op = "" THEN NoOut ELSE Outcome(op, s)

Servers == DOMAIN node
Alive(i) == i \in Servers /\ i \notin crashed

\* The host's timer fires: cycle
Tick(i, timedOut, hbDue) ==
    /\ Alive(i)
    /\ Apply(i, cycle(Call(node[i], timedOut, hbDue)), NoMsg, "", {})

\* A client proposes a command
ClientPropose(i, v) ==
    /\ Alive(i)
    /\ node[i].state.role = "Leader"
    /\ Apply(i, propose_command(Call(node[i], FALSE, FALSE), v), NoMsg, "", {})

\* The log storage reports everything written so far as durable
Flush(i) ==
    /\ Alive(i)
    /\ ~node[i].sync
    /\ node[i].durable < Len(node[i].log)
    /\ node' = [node EXCEPT ![i].durable = Len(node[i].log)]
    /\ out' = NoOut
    /\ UNCHANGED <<msgs, elected, committed, votes, crashed>>

\* A message is delivered; once = the network holds no further copy of it
Taken(msg, once) == IF once THEN {msg} ELSE {}

DeliverRequestVote(msg, once) ==
    /\ msg.type = "RequestVote"
    /\ Alive(msg.to)
    /\ Apply(msg.to, request_vote(Call(node[msg.to], FALSE, FALSE), msg.req), msg, "",
             Taken(msg, once))

DeliverRequestVoteResponse(msg, timedOut, once) ==
    /\ msg.type = "RequestVoteResponse"
    /\ Alive(msg.to)
    /\ Apply(msg.to,
             request_vote_callback(Call(node[msg.to], timedOut, FALSE), msg.from, msg.resp),
             msg, "", Taken(msg, once))

DeliverAppendEntries(msg, once) ==
    /\ msg.type = "AppendEntries"
    /\ Alive(msg.to)
    /\ Apply(msg.to, append_entries(Call(node[msg.to], FALSE, FALSE), msg.req), msg, "",
             Taken(msg, once))

DeliverAppendEntriesResponse(msg, hbDue, once) ==
    /\ msg.type = "AppendEntriesResponse"
    /\ Alive(msg.to)
    /\ Apply(msg.to,
             append_entries_callback(Call(node[msg.to], FALSE, hbDue),
                                     msg.from, msg.last_index, msg.resp),
             msg, "", Taken(msg, once))

\* A request got no answer (lost, or the peer closed the connection)
NoResponse(i, j) ==
    /\ Alive(i)
    /\ node[i].state.role = "Leader"
    /\ j \in DOMAIN node[i].state.servers
    /\ node[i].state.servers[j].request_pending
    /\ Apply(i, append_entries_noresponse(Call(node[i], FALSE, FALSE), j), NoMsg, "", {})

(***************************************************************************)
(* Spec: three voting members electing leaders.  Any member's election     *)
(* timer may fire; no client proposes, so AppendEntries are heartbeats.    *)
(***************************************************************************)
Cluster == {1, 2, 3}

InitCluster(ids) ==
    /\ node = [i \in ids |-> NewModule(i, ids, {}, TRUE)]
    /\ msgs = {}
    /\ elected = {}
    /\ committed = {}
    /\ votes = {}
    /\ crashed = {}
    /\ out = NoOut

Init == InitCluster(Cluster)

\* Elections begun so far: the distinct (candidate, term) pairs that asked for votes
Started ==
    Cardinality({<<m.from, m.req.term>> : m \in {x \in msgs : x.type = "RequestVote"}})

TermsBounded == \A i \in Servers : node'[i].current_term <= MaxTerm

Next ==
    \/ \E i \in Servers, timedOut \in BOOLEAN, hbDue \in BOOLEAN :
          /\ timedOut => Started < MaxElections
          /\ Tick(i, timedOut, hbDue)
          /\ TermsBounded
    \/ \E msg \in msgs : DeliverRequestVote(msg, FALSE) /\ TermsBounded
    \/ \E msg \in msgs : DeliverRequestVoteResponse(msg, FALSE, FALSE) /\ TermsBounded
    \/ \E msg \in msgs : DeliverAppendEntries(msg, FALSE) /\ TermsBounded
    \/ \E msg \in msgs, hbDue \in BOOLEAN :
          DeliverAppendEntriesResponse(msg, hbDue, FALSE) /\ TermsBounded
    \/ \E i \in Servers, j \in Servers : NoResponse(i, j)

Spec == Init /\ [][Next]_vars

(***************************************************************************)
(* SpecRepl: three voting members replicating a log.  Member 1 campaigns   *)
(* from term 0 and member 2 from term 1, so a second leader takes over     *)
(* from the first; member 3 is reached by vote requests only.              *)
(***************************************************************************)
ReplSchedule == {<<1, 0>>, <<2, 1>>}
ReplMayCampaign(i) == <<i, node[i].current_term>> \in ReplSchedule
ReplReplicas == {1, 2}

NextRepl ==
    \/ \E i \in Servers, timedOut \in BOOLEAN, hbDue \in BOOLEAN :
          /\ timedOut => ReplMayCampaign(i)
          /\ Tick(i, timedOut, hbDue)
          /\ TermsBounded
    \/ \E i \in Servers : Len(node[i].log) < MaxLog /\ ClientPropose(i, i)
    \/ \E msg \in msgs : DeliverRequestVote(msg, FALSE) /\ TermsBounded
    \/ \E msg \in msgs : DeliverRequestVoteResponse(msg, FALSE, FALSE) /\ TermsBounded
    \/ \E msg \in msgs : msg.to \in ReplReplicas /\ DeliverAppendEntries(msg, FALSE) /\ TermsBounded
    \/ \E msg \in msgs : DeliverAppendEntriesResponse(msg, FALSE, FALSE) /\ TermsBounded

SpecRepl == Init /\ [][NextRepl]_vars

(***************************************************************************)
(* SpecApi: one module, member 1 of three, driven through its public       *)
(* handlers with every request and response of the bounded sets below, in  *)
(* any order.  out holds the last call: its name, the peer it names, its   *)
(* request, what it returned and the Tick it filled.                       *)
(***************************************************************************)
ApiSelf == 1
ApiMembers == {1, 2, 3}
ApiPeers == {2, 3}
ApiResponder == 2       \* the peer whose AppendEntries responses arrive
ApiTerms == 1..ApiMaxTerm

NoReq == [term |-> 0]

ApiOutcome(op, from, req, s) ==
    [op |-> op, id |-> from, req |-> req, ret |-> s.ret,
     tick |-> [s.t EXCEPT !.messages = <<>>],
     fresh |-> s.fresh, panic |-> s.panic]

ApiApply(s, op, from, req) ==
    /\ s.m.current_term <= ApiMaxTerm
    /\ Len(s.m.log) <= ApiMaxLog
    /\ node' = IF s.panic THEN node ELSE [node EXCEPT ![ApiSelf] = s.m]
    /\ crashed' = IF s.panic THEN crashed \cup {ApiSelf} ELSE crashed
    /\ votes' = IF op = "request_vote" /\ ~s.panic
                THEN votes \cup Grant(ApiSelf, from, s.ret) ELSE votes
    /\ out' = ApiOutcome(op, from, req, s)
    /\ UNCHANGED <<msgs, elected, committed>>

ApiCall(timedOut, hbDue) == Call(node[ApiSelf], timedOut, hbDue)

\* Batches of entries that follow (prev_log_index, prev_log_term) in order;
\* a request carries no entry of a term above its own
ApiEntry(i, t) == LogEntry(i, t, Command(t))
ApiBatches(prev_index, prev_term) ==
    {<<>>}
    \cup {<<ApiEntry(prev_index + 1, t)>> : t \in {x \in ApiTerms : x >= prev_term}}
    \cup {<<ApiEntry(prev_index + 1, tu[1]), ApiEntry(prev_index + 2, tu[2])>> :
            tu \in {x \in ApiTerms \X ApiTerms : x[1] >= prev_term /\ x[2] >= x[1]}}

ApiPrevs == {<<0, 0>>} \cup {<<i, t>> : i \in 1..(ApiMaxLog - 1), t \in ApiTerms}

ApiAppendShapes ==
    UNION {{[term |-> term, leader_id |-> leader, prev_log_index |-> prev[1],
             prev_log_term |-> prev[2], entries |-> entries, leader_commit |-> commit]
               : term \in ApiTerms, leader \in {ApiResponder},
                 entries \in {b \in ApiBatches(prev[1], prev[2]) :
                                 prev[1] + Len(b) <= ApiMaxLog},
                 commit \in 0..ApiMaxLog}
           : prev \in ApiPrevs}

ApiAppendRequests ==
    {r \in ApiAppendShapes : \A n \in 1..Len(r.entries) : r.entries[n].term <= r.term}

\* The requests a Leader built from its own log earlier in its term ("the
\* leader is applying a change to itself"): its log then was a prefix of its
\* log now, and its commit_index no higher
ApiSelfRequests ==
    IF node[ApiSelf].state.role # "Leader" THEN {}
    ELSE {[new_request(node[ApiSelf], pk[1]) EXCEPT
              !.entries = SubSeq(node[ApiSelf].log, pk[1] + 1, pk[2]),
              !.leader_commit = commit]
            : pk \in {x \in (0..LastLogIndex(node[ApiSelf])) \X (0..LastLogIndex(node[ApiSelf]))
                         : x[2] >= x[1]},
              commit \in 0..node[ApiSelf].commit_index}

ApiVoteRequests ==
    {[term |-> term, candidate_id |-> candidate,
      last_log_index |-> last[1], last_log_term |-> last[2]]
        : term \in ApiTerms, candidate \in ApiPeers,
          last \in {<<0, 0>>} \cup {<<i, t>> : i \in 1..ApiMaxLog, t \in ApiTerms}}

ApiVoteResponses ==
    {[term |-> term, vote_granted |-> granted] : term \in ApiTerms, granted \in BOOLEAN}

ApiAppendResponses ==
    {[term |-> term, success |-> success, last_log_index |-> hint]
        : term \in ApiTerms, success \in BOOLEAN, hint \in {None} \cup 0..ApiMaxLog}

ApiCycle(timedOut, hbDue) ==
    /\ Alive(ApiSelf)
    /\ ApiApply(cycle(ApiCall(timedOut, hbDue)), "cycle", 0, NoReq)

ApiTimeoutNow ==
    /\ Alive(ApiSelf)
    /\ ApiApply(timeout_now(ApiCall(FALSE, FALSE)), "timeout_now", 0, NoReq)

ApiProposeNoop ==
    /\ Alive(ApiSelf)
    /\ ApiApply(propose_noop(ApiCall(FALSE, FALSE)), "propose_noop", 0, NoReq)

ApiProposeCommand(v) ==
    /\ Alive(ApiSelf)
    /\ ApiApply(propose_command(ApiCall(FALSE, FALSE), v), "propose_command", 0, NoReq)

ApiRequestVote(req) ==
    /\ Alive(ApiSelf)
    /\ ApiApply(request_vote(ApiCall(FALSE, FALSE), req), "request_vote",
                req.candidate_id, NoReq)

ApiRequestVoteCallback(from_id, resp, timedOut) ==
    /\ Alive(ApiSelf)
    /\ ApiApply(request_vote_callback(ApiCall(timedOut, FALSE), from_id, resp),
                "request_vote_callback", from_id, NoReq)

ApiAppendEntries(req) ==
    /\ Alive(ApiSelf)
    /\ ApiApply(append_entries(ApiCall(FALSE, FALSE), req), "append_entries",
                req.leader_id, req)

ApiAppendEntriesCallback(from_id, last_index, resp, hbDue) ==
    /\ Alive(ApiSelf)
    /\ ApiApply(append_entries_callback(ApiCall(FALSE, hbDue), from_id, last_index, resp),
                "append_entries_callback", from_id, NoReq)

ApiAppendEntriesNoResponse(from_id) ==
    /\ Alive(ApiSelf)
    /\ ApiApply(append_entries_noresponse(ApiCall(FALSE, FALSE), from_id),
                "append_entries_noresponse", from_id, NoReq)

InitApi ==
    /\ node = [i \in {ApiSelf} |-> NewModule(ApiSelf, ApiMembers, {}, FALSE)]
    /\ msgs = {}
    /\ elected = {}
    /\ committed = {}
    /\ votes = {}
    /\ crashed = {}
    /\ out = NoOut

NextApi ==
    \/ \E timedOut \in BOOLEAN, hbDue \in BOOLEAN : ApiCycle(timedOut, hbDue)
    \/ ApiTimeoutNow
    \/ ApiProposeNoop
    \/ ApiProposeCommand(1)
    \/ \E req \in ApiVoteRequests : ApiRequestVote(req)
    \/ \E from_id \in ApiPeers, resp \in ApiVoteResponses :
          ApiRequestVoteCallback(from_id, resp, FALSE)
    \/ \E req \in ApiAppendRequests \cup ApiSelfRequests : ApiAppendEntries(req)
    \/ \E last_index \in 0..ApiMaxLog, resp \in ApiAppendResponses :
          ApiAppendEntriesCallback(ApiResponder, last_index, resp, FALSE)
    \/ \E from_id \in ApiPeers : ApiAppendEntriesNoResponse(from_id)
    \/ Flush(ApiSelf)

SpecApi == InitApi /\ [][NextApi]_vars

(***************************************************************************)
(* SpecFive: five voting members under a schedule of timeouts and          *)
(* partitions.  Member 1 leads term 1 and reaches member 2 only; member 3  *)
(* leads term 2 and reaches member 1 only; member 1 leads term 3 and       *)
(* reaches member 3 only; member 2 leads term 4 with members 4 and 5.      *)
(* Requests travel on the links of the schedule; a response may reach the  *)
(* member that sent the request at any later time.  The network delivers   *)
(* each message at most once.                                              *)
(***************************************************************************)
FiveCluster == {1, 2, 3, 4, 5}
FiveMaxLog == 2     \* a client proposes to the Leader of term 1 while its log is shorter

\* <<member, term>>: the member's election timer fires while it is in that term
FiveSchedule == {<<1, 0>>, <<3, 1>>, <<1, 2>>, <<2, 3>>}

\* <<from, to, term>>: the RequestVote of that term is delivered on the link
FiveVoteLinks ==
    {<<1, 2, 1>>, <<1, 3, 1>>,
     <<3, 4, 2>>, <<3, 5, 2>>,
     <<1, 2, 3>>, <<1, 3, 3>>, <<1, 4, 3>>,
     <<2, 4, 4>>, <<2, 5, 4>>}

\* <<from, to, term>>: the AppendEntries of that term are delivered on the link
FiveAppendLinks ==
    {<<1, 2, 1>>, <<3, 1, 2>>, <<1, 3, 3>>, <<2, 4, 4>>, <<2, 5, 4>>}

InitFive == InitCluster(FiveCluster)

NextFive ==
    \/ \E i \in Servers :
          /\ <<i, node[i].current_term>> \in FiveSchedule
          /\ Tick(i, TRUE, FALSE)
    \/ \E i \in Servers :
          /\ node[i].current_term = 1
          /\ Len(node[i].log) < FiveMaxLog
          /\ ClientPropose(i, i)
    \/ \E msg \in msgs :
          /\ msg.type = "RequestVote"
          /\ <<msg.from, msg.to, msg.req.term>> \in FiveVoteLinks
          /\ DeliverRequestVote(msg, TRUE)
    \/ \E msg \in msgs : DeliverRequestVoteResponse(msg, FALSE, TRUE)
    \/ \E msg \in msgs :
          /\ msg.type = "AppendEntries"
          /\ <<msg.from, msg.to, msg.req.term>> \in FiveAppendLinks
          /\ DeliverAppendEntries(msg, TRUE)
    \/ \E msg \in msgs : DeliverAppendEntriesResponse(msg, FALSE, TRUE)

SpecFive == InitFive /\ [][NextFive]_vars

(***************************************************************************)
(* SpecQuery: the read-only queries pre_vote and proposal_status, called   *)
(* on every module of a bounded set of states with every request of a      *)
(* bounded set.  out holds the last query and its answer.                  *)
(***************************************************************************)
QueryMaxTerm == 2   \* highest term in the states and requests of SpecQuery
QueryMaxLog == 2    \* longest log in the states and requests of SpecQuery

\* A slip in pre_vote: the request's term is observed first, as request_vote does
pre_vote_call_observing(s, req) ==
    [observe_term(s, req.term) EXCEPT !.ret = pre_vote(observe_term(s, req.term).m, req)]

\* pre_vote as a call on &self
pre_vote_call(s, req) == [s EXCEPT !.ret = pre_vote(s.m, req)]

proposal_status(m, prop) ==
    IF prop.term > LastLogTerm(m) \/ prop.index > LastLogIndex(m) THEN "Missing"
    ELSE IF log_term(m.log, prop.index) = None THEN "Unavailable"
    ELSE IF log_term(m.log, prop.index) > prop.term THEN "Failed"
    ELSE IF log_term(m.log, prop.index) < prop.term
    THEN IF m.commit_index >= prop.index THEN "Failed" ELSE "Missing"
    ELSE IF m.commit_index >= prop.index THEN "Commited" ELSE "Failed"

\* Module states of a member of ApiMembers: a log of consecutive indexes
\* from 1 whose terms do not decrease and do not exceed current_term;
\* commit_index within the log; a vote is cast in a term >= 1; every role
QueryStates ==
    LET logs == {l \in UNION {[1..n -> 1..QueryMaxTerm] : n \in 0..QueryMaxLog} :
                    \A i \in 1..(Len(l) - 1) : l[i] <= l[i + 1]}
        roles(lli) ==
            {new_follower, [new_follower EXCEPT !.last_leader_id = ApiResponder],
             [role |-> "Candidate", votes_received |-> {}, some_rejected |-> FALSE],
             [role |-> "Leader", servers |-> [x \in ApiPeers |-> ServerProgress_new(lli)]]}
        modules ==
            {m \in {[NewModule(ApiSelf, ApiMembers, {}, TRUE) EXCEPT
                       !.current_term = x[1], !.voted_for = x[2], !.commit_index = x[3],
                       !.log = [i \in 1..Len(x[4]) |-> ApiEntry(i, x[4][i])]]
                      : x \in (0..QueryMaxTerm) \X ({None} \cup ApiMembers)
                                \X (0..QueryMaxLog) \X logs} :
                /\ LastLogTerm(m) <= m.current_term
                /\ m.commit_index <= LastLogIndex(m)
                /\ m.current_term = 0 => m.voted_for = None}
    IN UNION {{[m EXCEPT !.state = st] : st \in roles(LastLogIndex(m))} : m \in modules}

QueryApply(s, op, req) ==
    /\ node' = IF s.panic THEN node ELSE [node EXCEPT ![ApiSelf] = s.m]
    /\ crashed' = IF s.panic THEN crashed \cup {ApiSelf} ELSE crashed
    /\ out' = ApiOutcome(op, 0, req, s)
    /\ UNCHANGED <<msgs, elected, committed, votes>>

QueryPreVote(req) ==
    /\ Alive(ApiSelf)
    /\ QueryApply(pre_vote_call(ApiCall(FALSE, FALSE), req), "pre_vote", req)

\* proposal_status as a call on &self; log.term(last_log_index).unwrap()
QueryProposalStatus(prop) ==
    /\ Alive(ApiSelf)
    /\ QueryApply(IF LastLogTerm(node[ApiSelf]) = None THEN Panic(ApiCall(FALSE, FALSE))
                  ELSE [ApiCall(FALSE, FALSE) EXCEPT
                           !.ret = [kind |-> "Status",
                                    status |-> proposal_status(node[ApiSelf], prop)]],
                  "proposal_status", prop)

InitQuery ==
    /\ node \in {[i \in {ApiSelf} |-> m] : m \in QueryStates}
    /\ msgs = {}
    /\ elected = {}
    /\ committed = {}
    /\ votes = {}
    /\ crashed = {}
    /\ out = NoOut

NextQuery ==
    \/ \E term \in 1..QueryMaxTerm, candidate \in ApiPeers,
          last \in {<<0, 0>>} \cup ((1..QueryMaxLog) \X (1..QueryMaxTerm)) :
          QueryPreVote([term |-> term, candidate_id |-> candidate,
                        last_log_index |-> last[1], last_log_term |-> last[2]])
    \/ \E index \in 0..QueryMaxLog, term \in 0..QueryMaxTerm :
          QueryProposalStatus([index |-> index, term |-> term])

SpecQuery == InitQuery /\ [][NextQuery]_vars

(***************************************************************************)
(* SpecPropose: one module, member 1 of three, that is elected, steps      *)
(* down and is elected again while clients propose entries of every kind   *)
(* to it, configuration changes included.  out holds the last call with    *)
(* the whole Tick it filled.                                               *)
(***************************************************************************)
ProposeMaxTerm == 2   \* highest term the module reaches in SpecPropose
ProposeMaxLog == 2    \* longest log the module reaches in SpecPropose

\* The entries clients propose; server 4 is not in the initial configuration
ProposeData ==
    {Noop, Command(1)}
    \cup {Config("AddLearner", id) : id \in {ApiResponder, 4}}
    \cup {Config("AddMember", id) : id \in {4}}
    \cup {Config("RemoveServer", id) : id \in {ApiSelf, ApiResponder}}

ProposeApply(s, op, from, req) ==
    /\ s.m.current_term <= ProposeMaxTerm
    /\ Len(s.m.log) <= ProposeMaxLog
    /\ node' = IF s.panic THEN node ELSE [node EXCEPT ![ApiSelf] = s.m]
    /\ crashed' = IF s.panic THEN crashed \cup {ApiSelf} ELSE crashed
    /\ out' = [op |-> op, id |-> from, req |-> req, ret |-> s.ret,
               tick |-> IF op = "propose_entry" THEN s.t
                        ELSE [s.t EXCEPT !.messages = <<>>],
               fresh |-> s.fresh, panic |-> s.panic]
    /\ UNCHANGED <<msgs, elected, committed, votes>>

\* The host's timer fires
ProposeCycle(timedOut) ==
    /\ Alive(ApiSelf)
    /\ ProposeApply(cycle(ApiCall(timedOut, FALSE)), "cycle", 0, NoReq)

\* A peer grants the module its vote in the current term
ProposeVoted(from_id) ==
    /\ Alive(ApiSelf)
    /\ node[ApiSelf].state.role = "Candidate"
    /\ ProposeApply(request_vote_callback(ApiCall(FALSE, FALSE), from_id,
                        [term |-> node[ApiSelf].current_term, vote_granted |-> TRUE]),
                    "request_vote_callback", from_id, NoReq)

\* A client proposes an entry
ProposeEntry(data) ==
    /\ Alive(ApiSelf)
    /\ ProposeApply(propose_entry(ApiCall(FALSE, FALSE), data), "propose_entry", 0,
                    [term |-> 0, data |-> data])

\* A server answers the request pending with it: it holds the log up to last_index
ProposeAcked(from_id, last_index) ==
    /\ Alive(ApiSelf)
    /\ node[ApiSelf].state.role = "Leader"
    /\ from_id \in DOMAIN node[ApiSelf].state.servers
    /\ node[ApiSelf].state.servers[from_id].request_pending
    /\ last_index = LastLogIndex(node[ApiSelf])
    /\ ProposeApply(append_entries_callback(ApiCall(FALSE, FALSE), from_id, last_index,
                        [term |-> node[ApiSelf].current_term, success |-> TRUE,
                         last_log_index |-> None]),
                    "append_entries_callback", from_id, NoReq)

\* The request pending with a server gets no answer
ProposeNoResponse(from_id) ==
    /\ Alive(ApiSelf)
    /\ node[ApiSelf].state.role = "Leader"
    /\ from_id \in DOMAIN node[ApiSelf].state.servers
    /\ node[ApiSelf].state.servers[from_id].request_pending
    /\ ProposeApply(append_entries_noresponse(ApiCall(FALSE, FALSE), from_id),
                    "append_entries_noresponse", from_id, NoReq)

\* The heartbeat of a peer that leads the term: it matches the module's log
ProposeHeartbeat(term) ==
    /\ Alive(ApiSelf)
    /\ term >= node[ApiSelf].current_term
    /\ ~(node[ApiSelf].state.role = "Leader" /\ term = node[ApiSelf].current_term)
    /\ ProposeApply(append_entries(ApiCall(FALSE, FALSE),
                        [term |-> term, leader_id |-> ApiResponder,
                         prev_log_index |-> LastLogIndex(node[ApiSelf]),
                         prev_log_term |-> LastLogTerm(node[ApiSelf]),
                         entries |-> <<>>,
                         leader_commit |-> node[ApiSelf].commit_index]),
                    "append_entries", ApiResponder, NoReq)

\* A peer with the same log asks for the module's vote in the next term
ProposeRequestVote(candidate_id) ==
    /\ Alive(ApiSelf)
    /\ ProposeApply(request_vote(ApiCall(FALSE, FALSE),
                        [term |-> node[ApiSelf].current_term + 1,
                         candidate_id |-> candidate_id,
                         last_log_index |-> LastLogIndex(node[ApiSelf]),
                         last_log_term |-> LastLogTerm(node[ApiSelf])]),
                    "request_vote", candidate_id, NoReq)

NextPropose ==
    \/ \E timedOut \in BOOLEAN : ProposeCycle(timedOut)
    \/ \E from_id \in ApiPeers : ProposeVoted(from_id)
    \/ \E data \in ProposeData : ProposeEntry(data)
    \/ \E from_id \in ApiPeers \cup {4}, last_index \in 0..ProposeMaxLog :
          ProposeAcked(from_id, last_index)
    \/ \E from_id \in ApiPeers \cup {4} : ProposeNoResponse(from_id)
    \/ \E term \in 1..ProposeMaxTerm : ProposeHeartbeat(term)
    \/ \E candidate_id \in ApiPeers : ProposeRequestVote(candidate_id)

InitPropose ==
    /\ node = [i \in {ApiSelf} |-> NewModule(ApiSelf, ApiMembers, {}, TRUE)]
    /\ msgs = {}
    /\ elected = {}
    /\ committed = {}
    /\ votes = {}
    /\ crashed = {}
    /\ out = NoOut

SpecPropose == InitPropose /\ [][NextPropose]_vars

(***************************************************************************)
(* SpecStale: one module, member 1 of three, whose peers answer late.      *)
(* msgs holds the requests the module has sent; a response to any of them  *)
(* may arrive at any later time and more than once, across step-downs,     *)
(* elections and the removal of the responding server.                     *)
(***************************************************************************)
StaleMaxTerm == 3     \* the module leads a term, steps down and leads again
StaleMaxLog == 1      \* room for one proposed entry

\* A call on the module; msgs gains the requests of its Tick, one record per
\* receiver
StaleApply(s, op, from, req) ==
    /\ s.m.current_term <= StaleMaxTerm
    /\ Len(s.m.log) <= StaleMaxLog
    /\ node' = IF s.panic THEN node ELSE [node EXCEPT ![ApiSelf] = s.m]
    /\ crashed' = IF s.panic THEN crashed \cup {ApiSelf} ELSE crashed
    /\ msgs' = IF s.panic THEN msgs
               ELSE msgs \cup
                    {[type |-> s.t.messages[p[1]].type, to |-> p[2],
                      term |-> s.t.messages[p[1]].req.term,
                      last_index |-> s.t.messages[p[1]].last_index] :
                        p \in {q \in (1..Len(s.t.messages)) \X ApiPeers :
                                  q[2] \in s.t.messages[q[1]].to}}
    /\ out' = ApiOutcome(op, from, req, s)
    /\ UNCHANGED <<elected, committed, votes>>

\* The host's timer fires
StaleCycle(timedOut, hbDue) ==
    /\ Alive(ApiSelf)
    /\ StaleApply(cycle(ApiCall(timedOut, hbDue)), "cycle", 0, NoReq)

\* A client proposes an entry
StalePropose(data) ==
    /\ Alive(ApiSelf)
    /\ StaleApply(propose_entry(ApiCall(FALSE, FALSE), data), "propose_entry", 0, NoReq)

\* A candidate of the next term asks for the module's vote
StaleRequestVote(candidate_id) ==
    /\ Alive(ApiSelf)
    /\ StaleApply(request_vote(ApiCall(FALSE, FALSE),
                      [term |-> node[ApiSelf].current_term + 1,
                       candidate_id |-> candidate_id,
                       last_log_index |-> LastLogIndex(node[ApiSelf]),
                       last_log_term |-> LastLogTerm(node[ApiSelf])]),
                  "request_vote", candidate_id, NoReq)

\* The answer to a RequestVote the module sent arrives
StaleVoteResponse(msg, granted) ==
    /\ Alive(ApiSelf)
    /\ msg \in msgs
    /\ msg.type = "RequestVote"
    /\ StaleApply(request_vote_callback(ApiCall(FALSE, FALSE), msg.to,
                      [term |-> msg.term, vote_granted |-> granted]),
                  "request_vote_callback", msg.to, [term |-> msg.term])

\* The answer to an AppendEntries the module sent arrives: success in the
\* request's term, or the refusal of a peer that is in a later term
StaleAppendResponse(msg, resp) ==
    /\ Alive(ApiSelf)
    /\ msg \in msgs
    /\ msg.type = "AppendEntries"
    /\ resp.success <=> resp.term = msg.term
    /\ resp.term >= msg.term
    /\ StaleApply(append_entries_callback(ApiCall(FALSE, FALSE), msg.to,
                                          msg.last_index, resp),
                  "append_entries_callback", msg.to, [term |-> msg.term])

\* An AppendEntries the module sent is reported as unanswered
StaleNoResponse(msg) ==
    /\ Alive(ApiSelf)
    /\ msg \in msgs
    /\ msg.type = "AppendEntries"
    /\ StaleApply(append_entries_noresponse(ApiCall(FALSE, FALSE), msg.to),
                  "append_entries_noresponse", msg.to, [term |-> msg.term])

NextStale ==
    \/ \E timedOut \in BOOLEAN, hbDue \in BOOLEAN : StaleCycle(timedOut, hbDue)
    \/ \E data \in {Noop, Config("RemoveServer", 3)} : StalePropose(data)
    \/ \E candidate_id \in ApiPeers : StaleRequestVote(candidate_id)
    \/ \E msg \in msgs, granted \in BOOLEAN : StaleVoteResponse(msg, granted)
    \/ \E msg \in msgs, term \in 1..StaleMaxTerm, success \in BOOLEAN :
          StaleAppendResponse(msg, [term |-> term, success |-> success,
                                    last_log_index |-> None])
    \/ \E msg \in msgs : StaleNoResponse(msg)

SpecStale == InitPropose /\ [][NextStale]_vars
(***************************************************************************)
(* SpecBlock: block_size_remainder (pkg/core/src/lib.rs), a pure function  *)
(* of two u64.  Init draws the arguments, the action applies the function. *)
(***************************************************************************)
BlockMax == 16      \* block sizes and end offsets run up to BlockMax

\* A slip in block_size_remainder: an offset on a block boundary is not
\* tested for
block_size_remainder_unaligned(block_size, end_offset) ==
    block_size - (end_offset % block_size)

block_size_remainder(block_size, end_offset) ==
    LET rem == end_offset % block_size
    IN IF rem = 0 THEN 0 ELSE block_size - rem

InitBlock ==
    /\ node = [i \in {ApiSelf} |-> NewModule(ApiSelf, ApiMembers, {}, TRUE)]
    /\ msgs = {}
    /\ elected = {}
    /\ committed = {}
    /\ votes = {}
    /\ crashed = {}
    /\ out \in {[NoOut EXCEPT !.req = [term |-> 0, block_size |-> b, end_offset |-> e]] :
                   b \in 1..BlockMax, e \in 0..(3 * BlockMax)}

\* The call block_size_remainder(block_size, end_offset) on the arguments drawn
BlockSizeRemainder ==
    /\ out.op = "none"
    /\ out' = [out EXCEPT !.op = "block_size_remainder",
                          !.ret = [kind |-> "u64",
                                   value |-> block_size_remainder(out.req.block_size,
                                                                  out.req.end_offset)]]
    /\ UNCHANGED <<node, msgs, elected, committed, votes, crashed>>

SpecBlock == InitBlock /\ [][BlockSizeRemainder]_vars

(***************************************************************************)
(* SpecAppend: append_entries called on every module state of a bounded    *)
(* set, logs that end in an uncommitted configuration change included,     *)
(* with every well-formed request of a bounded set.  out.req holds the     *)
(* request and, as `before`, the module the call was made on.              *)
(***************************************************************************)
\* The states of SpecQuery, and those of them with an uncommitted last entry
\* in which that entry adds server 4 as a learner
InitAppend ==
    /\ node \in {[i \in {ApiSelf} |-> m] : m \in
                   QueryStates
                   \cup {[m EXCEPT !.log[Len(m.log)].data = Config("AddLearner", 4),
                                   !.config = config_apply(@,
                                       LogEntry(Len(m.log), m.log[Len(m.log)].term,
                                                Config("AddLearner", 4)),
                                       m.commit_index)]
                           : m \in {x \in QueryStates : x.commit_index < Len(x.log)}}}
    /\ msgs = {}
    /\ elected = {}
    /\ committed = {}
    /\ votes = {}
    /\ crashed = {}
    /\ out = NoOut

\* Requests of a leader of term `term`: up to two entries that follow the
\* previous position in order, none of a term above the request's
AppendRequests ==
    {r \in UNION {{[term |-> term, leader_id |-> ApiResponder,
                    prev_log_index |-> prev[1], prev_log_term |-> prev[2],
                    entries |-> entries, leader_commit |-> commit]
                     : term \in 1..QueryMaxTerm,
                       entries \in ApiBatches(prev[1], prev[2]),
                       commit \in 0..(QueryMaxLog + 1)}
                  : prev \in {<<0, 0>>} \cup ((1..QueryMaxLog) \X (1..QueryMaxTerm))} :
        /\ r.prev_log_term <= r.term
        /\ \A n \in 1..Len(r.entries) : r.entries[n].term <= r.term}

\* One call on the state drawn
AppendEntries(req) ==
    /\ Alive(ApiSelf)
    /\ out = NoOut
    /\ QueryApply(append_entries(ApiCall(FALSE, FALSE), req), "append_entries",
                  [term |-> req.term, leader_id |-> req.leader_id,
                   prev_log_index |-> req.prev_log_index,
                   prev_log_term |-> req.prev_log_term,
                   entries |-> req.entries, leader_commit |-> req.leader_commit,
                   before |-> node[ApiSelf]])

NextAppend == \E req \in AppendRequests : AppendEntries(req)

SpecAppend == InitAppend /\ [][NextAppend]_vars

(***************************************************************************)
(* SpecRestart: the module of SpecApi constructed from what a host had     *)
(* persisted: the metadata may name a commit_index above the last entry    *)
(* of the log (a leader commits entries before they are flushed locally).  *)
(***************************************************************************)
\* ConsensusModule::new on persisted metadata and log: a log that ends in a
\* term above the metadata's sets current_term and clears the vote
InitRestart ==
    /\ node \in {[i \in {ApiSelf} |->
                    [NewModule(ApiSelf, ApiMembers, {}, FALSE) EXCEPT
                        !.log = x[1], !.durable = Len(x[1]), !.commit_index = x[2],
                        !.current_term = Max(x[3], log_term(x[1], Len(x[1]))),
                        !.voted_for = IF log_term(x[1], Len(x[1])) > x[3] \/ x[3] = 0
                                      THEN None ELSE x[4]]]
                  : x \in {<<>>, <<ApiEntry(1, 1)>>} \X (0..ApiMaxLog) \X (0..1)
                            \X ({None} \cup ApiMembers)}
    /\ msgs = {}
    /\ elected = {}
    /\ committed = {}
    /\ votes = {}
    /\ crashed = {}
    /\ out = NoOut

SpecRestart == InitRestart /\ [][NextApi]_vars

(***************************************************************************)
(* SpecCommit: a Leader in every state of a bounded set (its log, what of  *)
(* it is durable, what each peer has matched, peer 3 a member or a         *)
(* learner) is cycled, takes proposals and receives acknowledgements.      *)
(***************************************************************************)
InitCommit ==
    /\ node \in
         {[i \in {ApiSelf} |->
             [NewModule(ApiSelf, ApiMembers \ x[6], x[6], FALSE) EXCEPT
                 !.log = [k \in 1..Len(x[1]) |-> ApiEntry(k, x[1][k])],
                 !.current_term = x[2], !.voted_for = ApiSelf,
                 !.commit_index = x[3][1], !.durable = x[3][2],
                 !.state = [role |-> "Leader",
                            servers |-> [p \in ApiPeers |->
                                [ServerProgress_new(x[IF p = 2 THEN 4 ELSE 5]) EXCEPT
                                    !.match_index = x[IF p = 2 THEN 4 ELSE 5]]]]]]
           : x \in {y \in (UNION {[1..n -> 1..ProposeMaxTerm] : n \in 0..ProposeMaxLog})
                            \X (1..ProposeMaxTerm)
                            \X ((0..ProposeMaxLog) \X (0..ProposeMaxLog))
                            \X (0..ProposeMaxLog) \X (0..ProposeMaxLog)
                            \X {{}, {3}} :
                      /\ \A k \in 1..Len(y[1]) :
                            y[1][k] <= y[2] /\ (k > 1 => y[1][k - 1] <= y[1][k])
                      /\ y[3][1] <= Len(y[1]) /\ y[3][2] <= Len(y[1])
                      /\ y[4] <= Len(y[1]) /\ y[5] <= Len(y[1])}}
    /\ msgs = {}
    /\ elected = {}
    /\ committed = {}
    /\ votes = {}
    /\ crashed = {}
    /\ out = NoOut

NextCommit ==
    \/ \E timedOut \in BOOLEAN : ProposeCycle(timedOut)
    \/ \E data \in ProposeData : ProposeEntry(data)
    \/ \E from_id \in ApiPeers, last_index \in 0..ProposeMaxLog :
          ProposeAcked(from_id, last_index)

SpecCommit == InitCommit /\ [][NextCommit]_vars

(***************************************************************************)
(* SpecSolo: a cluster whose only member is the module.  Clients propose,  *)
(* the host flushes the log and calls cycle; it does both again and again. *)
(***************************************************************************)
InitSolo ==
    /\ node = [i \in {ApiSelf} |-> NewModule(ApiSelf, {ApiSelf}, {}, FALSE)]
    /\ msgs = {}
    /\ elected = {}
    /\ committed = {}
    /\ votes = {}
    /\ crashed = {}
    /\ out = NoOut

SoloCycle == \E timedOut \in BOOLEAN : ProposeCycle(timedOut)

NextSolo ==
    \/ SoloCycle
    \/ \E data \in {Noop, Command(1), Command(2)} : ProposeEntry(data)
    \/ Flush(ApiSelf)

SpecSolo ==
    InitSolo /\ [][NextSolo]_vars /\ WF_vars(SoloCycle) /\ WF_vars(Flush(ApiSelf))

(***************************************************************************)
(* SpecElect: three voting members at term 0 with empty logs.  The         *)
(* election timer fires once, in any one member; the network delivers      *)
(* every message, each once.                                               *)
(***************************************************************************)
ElectTimeout == \E i \in Servers, hbDue \in BOOLEAN :
    /\ \A j \in Servers : node[j].current_term = 0
    /\ Tick(i, TRUE, hbDue)

ElectTick == \E i \in Servers, hbDue \in BOOLEAN : Tick(i, FALSE, hbDue)
ElectRequestVote == \E msg \in msgs : DeliverRequestVote(msg, TRUE)
ElectRequestVoteResponse == \E msg \in msgs : DeliverRequestVoteResponse(msg, FALSE, TRUE)
ElectAppendEntries == \E msg \in msgs : DeliverAppendEntries(msg, TRUE)
ElectAppendEntriesResponse ==
    \E msg \in msgs, hbDue \in BOOLEAN : DeliverAppendEntriesResponse(msg, hbDue, TRUE)

NextElect ==
    \/ ElectTimeout
    \/ ElectTick
    \/ ElectRequestVote
    \/ ElectRequestVoteResponse
    \/ ElectAppendEntries
    \/ ElectAppendEntriesResponse

SpecElect ==
    /\ Init
    /\ [][NextElect]_vars
    /\ WF_vars(ElectTimeout)
    /\ WF_vars(ElectRequestVote)
    /\ WF_vars(ElectRequestVoteResponse)

(***************************************************************************)
(* SpecFlight: one module, member 1 of three, and the AppendEntries it has *)
(* sent.  msgs holds the requests that are outstanding: a request leaves   *)
(* it when the host hands its response to append_entries_callback or       *)
(* reports it to append_entries_noresponse.  out holds the last call with  *)
(* the whole Tick it filled and the module as it was before the call.      *)
(***************************************************************************)
FlightMaxTerm == 3    \* the module leads a term, steps down and leads again
FlightMaxLog == 1     \* room for one proposed entry

\* The AppendEntries of a Tick, one record per receiver; copy tells apart
\* the requests outstanding with one server
FlightSent(t, kept) ==
    {[type |-> "AppendEntries", to |-> p[2],
      term |-> t.messages[p[1]].req.term,
      last_index |-> t.messages[p[1]].last_index,
      copy |-> 1 + Cardinality({x \in kept : x.to = p[2]})] :
        p \in {q \in (1..Len(t.messages)) \X ApiPeers :
                  /\ t.messages[q[1]].type = "AppendEntries"
                  /\ q[2] \in t.messages[q[1]].to}}

FlightApply(s, op, from, answered) ==
    /\ s.m.current_term <= FlightMaxTerm
    /\ Len(s.m.log) <= FlightMaxLog
    /\ node' = IF s.panic THEN node ELSE [node EXCEPT ![ApiSelf] = s.m]
    /\ crashed' = IF s.panic THEN crashed \cup {ApiSelf} ELSE crashed
    /\ msgs' = IF s.panic THEN msgs
               ELSE (msgs \ answered) \cup FlightSent(s.t, msgs \ answered)
    /\ out' = [op |-> op, id |-> from,
               req |-> [term |-> 0, before |-> node[ApiSelf]],
               ret |-> s.ret, tick |-> s.t, fresh |-> s.fresh, panic |-> s.panic]
    /\ UNCHANGED <<elected, committed, votes>>

\* The host's timer fires
FlightCycle(timedOut, hbDue) ==
    /\ Alive(ApiSelf)
    /\ FlightApply(cycle(ApiCall(timedOut, hbDue)), "cycle", 0, {})

\* A client proposes an entry
FlightPropose(data) ==
    /\ Alive(ApiSelf)
    /\ FlightApply(propose_entry(ApiCall(FALSE, FALSE), data), "propose_entry", 0, {})

\* A candidate of the next term asks for the module's vote
FlightRequestVote(candidate_id) ==
    /\ Alive(ApiSelf)
    /\ FlightApply(request_vote(ApiCall(FALSE, FALSE),
                       [term |-> node[ApiSelf].current_term + 1,
                        candidate_id |-> candidate_id,
                        last_log_index |-> LastLogIndex(node[ApiSelf]),
                        last_log_term |-> LastLogTerm(node[ApiSelf])]),
                   "request_vote", candidate_id, {})

\* A peer grants the module its vote in the current term
FlightVoted(from_id) ==
    /\ Alive(ApiSelf)
    /\ node[ApiSelf].state.role = "Candidate"
    /\ FlightApply(request_vote_callback(ApiCall(FALSE, FALSE), from_id,
                       [term |-> node[ApiSelf].current_term, vote_granted |-> TRUE]),
                   "request_vote_callback", from_id, {})

\* The answer to an outstanding AppendEntries arrives: success in the
\* request's term, or the refusal of a peer that is in a later term
FlightAnswer(msg, resp) ==
    /\ Alive(ApiSelf)
    /\ msg \in msgs
    /\ resp.success <=> resp.term = msg.term
    /\ resp.term >= msg.term
    /\ FlightApply(append_entries_callback(ApiCall(FALSE, FALSE), msg.to,
                                           msg.last_index, resp),
                   "append_entries_callback", msg.to, {msg})

\* An outstanding AppendEntries is reported as unanswered
FlightNoResponse(msg) ==
    /\ Alive(ApiSelf)
    /\ msg \in msgs
    /\ FlightApply(append_entries_noresponse(ApiCall(FALSE, FALSE), msg.to),
                   "append_entries_noresponse", msg.to, {msg})

NextFlight ==
    \/ \E timedOut \in BOOLEAN, hbDue \in BOOLEAN : FlightCycle(timedOut, hbDue)
    \/ \E data \in {Noop, Command(1)} : FlightPropose(data)
    \/ \E candidate_id \in ApiPeers : FlightRequestVote(candidate_id)
    \/ \E from_id \in ApiPeers : FlightVoted(from_id)
    \/ \E msg \in msgs, term \in 1..FlightMaxTerm, success \in BOOLEAN :
          FlightAnswer(msg, [term |-> term, success |-> success,
                             last_log_index |-> None])
    \/ \E msg \in msgs : FlightNoResponse(msg)

SpecFlight == InitPropose /\ [][NextFlight]_vars

(***************************************************************************)
(* SpecQuorum: one module, member 1 of five, driven through its public     *)
(* handlers as in SpecApi; the responses of servers 2 and 3 arrive, in any *)
(* order and any number of times.                                          *)
(***************************************************************************)
QuorumMembers == {1, 2, 3, 4, 5}

InitQuorum ==
    /\ node = [i \in {ApiSelf} |-> NewModule(ApiSelf, QuorumMembers, {}, FALSE)]
    /\ msgs = {}
    /\ elected = {}
    /\ committed = {}
    /\ votes = {}
    /\ crashed = {}
    /\ out = NoOut

SpecQuorum == InitQuorum /\ [][NextApi]_vars

(***************************************************************************)
(* SpecLearner: one module, server 1, created with every configuration of  *)
(* the set below: a member of three, a learner beside two members, a       *)
(* server outside the configuration, a server of an empty configuration,   *)
(* the only member.  It is driven through its public handlers as in        *)
(* SpecApi.                                                                *)
(***************************************************************************)
LearnerConfigs ==
    {[members |-> ApiMembers, learners |-> {}],
     [members |-> ApiPeers, learners |-> {ApiSelf}],
     [members |-> ApiPeers, learners |-> {}],
     [members |-> {}, learners |-> {ApiSelf}],
     [members |-> {}, learners |-> {}],
     [members |-> {ApiSelf}, learners |-> {}]}

InitLearner ==
    /\ node \in {[i \in {ApiSelf} |-> NewModule(ApiSelf, c.members, c.learners, FALSE)]
                    : c \in LearnerConfigs}
    /\ msgs = {}
    /\ elected = {}
    /\ committed = {}
    /\ votes = {}
    /\ crashed = {}
    /\ out = NoOut

SpecLearner == InitLearner /\ [][NextApi]_vars

(***************************************************************************)
(* Properties                                                              *)
(***************************************************************************)
Role(i) == node[i].state.role
Refused == "Refusing to truncate changes already locally committed"
TwoLeaders == "append entries from another leader in the same term"

\* The candidates that request_vote calls of a majority of members (their own
\* vote included) granted in term t
MajorityGranted(t) ==
    {c \in Servers :
        1 + Cardinality({v \in Servers \ {c} : <<v, t, c>> \in votes})
            >= majority_size(node[c])}

\* C1 (election safety): for every term at most one candidate is granted
\* votes by a majority of the members, and at most one module is ever in the
\* Leader role for that term.
C1_ElectionSafety ==
    /\ \A t \in 1..MaxTerm : Cardinality(MajorityGranted(t)) <= 1
    /\ \A a \in elected, b \in elected : a[2] = b[2] => a[1] = b[1]

\* Two members campaigned in the same term and one of them became its Leader
C1_Witness ==
    \E a \in elected :
        /\ a[1] \in MajorityGranted(a[2])
        /\ \E r \in msgs : /\ r.type = "RequestVote"
                           /\ r.req.term = a[2]
                           /\ r.from # a[1]

\* C2 (state-machine safety): for any two modules and any index that is
\* <= commit_index on both and present in both logs, the two logs hold the
\* same entry (term and data) at that index.
C2_StateMachineSafety ==
    \A i \in Servers, j \in Servers :
        \A k \in 1..Min(Min(node[i].commit_index, node[j].commit_index),
                        Min(Len(node[i].log), Len(node[j].log))) :
            node[i].log[k] = node[j].log[k]

\* C3 (log matching): if the logs of two modules hold an entry with the same
\* index and the same term, the two logs are identical (term and data) up to
\* and including that index.
C3_LogMatching ==
    \A i \in Servers, j \in Servers :
        \A k \in 1..Min(Len(node[i].log), Len(node[j].log)) :
            node[i].log[k].term = node[j].log[k].term
                => SubSeq(node[i].log, 1, k) = SubSeq(node[j].log, 1, k)

\* The Leader of term 1 holds, at index 1, the entry that the Leader of term 2
\* created there
C3_Witness ==
    \E i \in Servers, j \in Servers :
        /\ i # j
        /\ Role(j) = "Leader"
        /\ <<i, 1>> \in elected
        /\ node[j].current_term = 2
        /\ Len(node[i].log) >= 1
        /\ Len(node[j].log) >= 1
        /\ node[i].log[1] = node[j].log[1]
        /\ node[j].log[1].term = 2

\* C4 (leader completeness): an entry that the Leader of a term covered with
\* its commit_index is, with the same index and term, in the log of every
\* module that is Leader in a later term.
C4_LeaderCompleteness ==
    \A c \in committed, i \in Servers :
        (Role(i) = "Leader" /\ node[i].current_term > c.by)
            => log_term(node[i].log, c.index) = c.term

\* C5 (committed entries are never truncated): no step removes or replaces
\* a log entry at an index <= the commit_index the module had before the step.
C5_CommittedKept ==
    [][\A i \in Servers :
          \A k \in 1..Min(node[i].commit_index, Len(node[i].log)) :
              /\ k <= Len(node'[i].log)
              /\ node'[i].log[k] = node[i].log[k]]_vars

\* An append_entries request whose first entry contradicts a committed entry
\* was handled, and the committed entry is still in the log
C5_Witness ==
    /\ out.op = "append_entries"
    /\ Len(out.req.entries) >= 1
    /\ out.req.entries[1].index <= node[ApiSelf].commit_index
    /\ out.req.entries[1].index <= Len(node[ApiSelf].log)
    /\ node[ApiSelf].log[out.req.entries[1].index].term # out.req.entries[1].term

\* The index of the first entry of the request that conflicts with the log
\* (same index, another term), 0 if there is none
FirstConflict(m, req) ==
    IF first_new_of(m.log, req.entries) < Len(req.entries)
       /\ log_term(m.log, req.entries[first_new_of(m.log, req.entries) + 1].index) # None
    THEN req.entries[first_new_of(m.log, req.entries) + 1].index
    ELSE 0

\* The step is an append_entries call whose first conflicting entry lies at
\* an index <= commit_index
ConflictCommitted ==
    /\ out'.op = "append_entries"
    /\ FirstConflict(node[ApiSelf], out'.req) >= 1
    /\ FirstConflict(node[ApiSelf], out'.req) <= node[ApiSelf].commit_index

C7_LeaderAppendOnly ==
    [][\A i \in Servers :
          (Role(i) = "Leader" /\ node'[i].state.role = "Leader")
              => /\ Len(node'[i].log) >= Len(node[i].log)
                 /\ SubSeq(node'[i].log, 1, Len(node[i].log)) = node[i].log]_vars

\* A Leader holding entries was sent append_entries by another server in its
\* own term, and is still the Leader
C7_Witness ==
    /\ out.op = "append_entries"
    /\ out.ret = AppendEntriesErr(TwoLeaders)
    /\ Len(out.req.entries) >= 1
    /\ Role(ApiSelf) = "Leader"
    /\ Len(node[ApiSelf].log) >= 1

\* C8 (monotonic term): no handler call lowers current_term.
C8_TermMonotone ==
    [][\A i \in Servers : node'[i].current_term >= node[i].current_term]_vars

\* An append_entries request of a term below the module's was handled
C8_Witness ==
    /\ out.op = "append_entries"
    /\ out.req.term < node[ApiSelf].current_term
    /\ out.ret = AppendEntriesResponse(node[ApiSelf].current_term, FALSE, None)

\* C9 (commit monotonicity): no handler call lowers commit_index; an
\* append_entries whose min(leader_commit, last new index) is below the local
\* commit_index leaves it where it was.
C9_CommitMonotone ==
    [][\A i \in Servers : node'[i].commit_index >= node[i].commit_index]_vars

\* A successful append_entries carried a leader_commit below the local commit_index
C9_Witness ==
    /\ out.op = "append_entries"
    /\ out.ret.kind = "Ok"
    /\ out.ret.success
    /\ out.req.leader_commit < node[ApiSelf].commit_index

\* request_vote grants no two candidates a vote in one term, and a vote
\* granted in the current term is the one voted_for holds
C10_VotesOfATerm ==
    /\ \A a \in votes, b \in votes : (a[1] = b[1] /\ a[2] = b[2]) => a[3] = b[3]
    /\ \A a \in votes : a[2] = node[a[1]].current_term => node[a[1]].voted_for = a[3]

\* While current_term stays the same, a voted_for that is set does not change
C10_VotedForKept ==
    \A i \in Servers :
        (node'[i].current_term = node[i].current_term /\ node[i].voted_for # None)
            => node'[i].voted_for = node[i].voted_for

\* C10 (one vote per term): while current_term stays the same, a voted_for
\* that is set never becomes None or another id, and request_vote never
\* grants its vote to two different candidates in one term.
C10_OneVotePerTerm == []C10_VotesOfATerm /\ [][C10_VotedForKept]_vars

\* With an empty log, so that every candidate is up to date, the module
\* granted candidate 2 its vote and then refused candidate 3 in the same term
C10_Witness ==
    /\ out.op = "request_vote"
    /\ out.id = 3
    /\ ~out.ret.vote_granted
    /\ out.ret.term = node[ApiSelf].current_term
    /\ <<ApiSelf, node[ApiSelf].current_term, 2>> \in votes
    /\ Len(node[ApiSelf].log) = 0

UpToDate(m, req) ==
    \/ req.last_log_term > LastLogTerm(m)
    \/ (req.last_log_term = LastLogTerm(m) /\ req.last_log_index >= LastLogIndex(m))

\* C12 (grant rule): pre_vote answers with the module's current_term, and
\* grants exactly when req.term >= current_term, the candidate's log is at
\* least as up to date as the local log, and req.term > current_term or
\* voted_for is None or the candidate.
C12_GrantRule ==
    [][out'.op = "pre_vote" =>
          /\ out'.ret.term = node[ApiSelf].current_term
          /\ out'.ret.vote_granted <=>
                /\ out'.req.term >= node[ApiSelf].current_term
                /\ UpToDate(node[ApiSelf], out'.req)
                /\ \/ out'.req.term > node[ApiSelf].current_term
                   \/ node[ApiSelf].voted_for = None
                   \/ node[ApiSelf].voted_for = out'.req.candidate_id]_vars

\* A candidate whose log is shorter but ends in a higher term was granted,
\* in the module's own term, the vote the module had already given it
C12_Witness ==
    /\ out.op = "pre_vote"
    /\ out.ret.vote_granted
    /\ out.req.term = node[ApiSelf].current_term
    /\ node[ApiSelf].voted_for = out.req.candidate_id
    /\ out.req.last_log_term > LastLogTerm(node[ApiSelf])
    /\ out.req.last_log_index < LastLogIndex(node[ApiSelf])

\* C13 (status of an uncommitted proposal): proposal_status returns Pending
\* for a proposal whose index is in the local log with the proposal's term
\* while commit_index is below that index.
C13_PendingNotFailed ==
    [][(/\ out'.op = "proposal_status"
        /\ out'.req.index >= 1
        /\ out'.req.index <= LastLogIndex(node[ApiSelf])
        /\ log_term(node[ApiSelf].log, out'.req.index) = out'.req.term
        /\ node[ApiSelf].commit_index < out'.req.index)
          => out'.ret.status = "Pending"]_vars

\* The last call was a propose_entry made in the given role
Proposing(role) == out'.op = "propose_entry" /\ Role(ApiSelf) = role

\* C14, as the specification states it: on a module that is not Leader the
\* hint is the follower's last_leader_id if set, else voted_for.
C14_Original ==
    [][(out'.op = "propose_entry" /\ Role(ApiSelf) # "Leader") =>
          out'.ret = NotLeader(IF Role(ApiSelf) = "Follower"
                                  /\ node[ApiSelf].state.last_leader_id # None
                               THEN node[ApiSelf].state.last_leader_id
                               ELSE node[ApiSelf].voted_for)]_vars

\* C14, as the code has it: propose_entry on a Follower returns NotLeader
\* with the hint last_leader_id if set, else voted_for; on a Candidate it
\* returns NotLeader with no hint; either way the log, the metadata, the
\* configuration, the role state and the Tick are left as they were.
C14_NotLeader ==
    [][(out'.op = "propose_entry" /\ Role(ApiSelf) # "Leader") =>
          /\ out'.ret = NotLeader(IF Role(ApiSelf) # "Follower" THEN None
                                  ELSE IF node[ApiSelf].state.last_leader_id # None
                                  THEN node[ApiSelf].state.last_leader_id
                                  ELSE node[ApiSelf].voted_for)
          /\ node' = node
          /\ out'.tick = Tick_empty
          /\ ~out'.fresh
          /\ ~out'.panic]_vars

\* A Candidate, which has voted for itself, answered a proposal without a hint
C14_Witness ==
    /\ out.op = "propose_entry"
    /\ Role(ApiSelf) = "Candidate"
    /\ node[ApiSelf].voted_for = ApiSelf
    /\ out.ret = NotLeader(None)

\* The indexes of the configuration changes in the log above commit_index
UncommittedChanges(m) ==
    {k \in (m.commit_index + 1)..Len(m.log) : m.log[k].data.kind = "Config"}

\* C15 (one configuration change at a time): on a Leader, a Config proposal
\* made while an earlier change is uncommitted returns RetryAfter with the
\* index of the pending change and the log's term at it, and leaves log,
\* configuration and Tick as they were; so a Leader appends a configuration
\* change only to a log that holds no uncommitted one.
C15_RetryAfter ==
    [][Proposing("Leader") =>
          /\ (out'.req.data.kind = "Config" /\ UncommittedChanges(node[ApiSelf]) # {}) =>
                /\ node[ApiSelf].config.pending.some
                /\ out'.ret = RetryAfter(node[ApiSelf].config.pending.last_change,
                                  log_term(node[ApiSelf].log,
                                           node[ApiSelf].config.pending.last_change))
                /\ node[ApiSelf].config.pending.last_change \in UncommittedChanges(node[ApiSelf])
                /\ node' = node
                /\ out'.tick = Tick_empty
                /\ ~out'.panic
          /\ (out'.req.data.kind = "Config" /\ out'.ret.kind = "Ok") =>
                UncommittedChanges(node[ApiSelf]) = {}]_vars

\* A Leader with an uncommitted change at index 2 refused a second change
C15_Witness ==
    /\ out.op = "propose_entry"
    /\ out.ret.kind = "RetryAfter"
    /\ out.ret.index = 2
    /\ out.req.data.kind = "Config"
    /\ Role(ApiSelf) = "Leader"

\* C16 (a successful proposal): the log grows by exactly one entry, at the
\* old last index + 1, with the current term and the given data; the
\* Proposal returned is that term and index; Tick.new_entries is set; no
\* entry the log held is changed.
C16_Appended ==
    [][(Proposing("Leader") /\ out'.ret.kind = "Ok") =>
          /\ node'[ApiSelf].log =
                Append(node[ApiSelf].log,
                       LogEntry(LastLogIndex(node[ApiSelf]) + 1,
                                node[ApiSelf].current_term, out'.req.data))
          /\ out'.ret = Proposed(LastLogIndex(node[ApiSelf]) + 1, node[ApiSelf].current_term)
          /\ out'.tick.new_entries
          /\ node'[ApiSelf].current_term = node[ApiSelf].current_term]_vars

\* A Leader whose log held a client's command appended a configuration
\* change behind it, and the call sent requests to its peers
C16_Witness ==
    /\ out.op = "propose_entry"
    /\ out.ret.kind = "Ok"
    /\ out.req.data.kind = "Config"
    /\ out.ret.index = 2
    /\ node[ApiSelf].log[1].data.kind = "Command"
    /\ Len(out.tick.messages) >= 1

\* The servers of the configuration other than the module itself
OtherServers(m) == config_iter(m.config.value) \ {m.id}

\* The Tick holds an AppendEntries request for server x that runs up to index
SentUpTo(tick, x, index) ==
    \E n \in 1..Len(tick.messages) :
        /\ tick.messages[n].type = "AppendEntries"
        /\ x \in tick.messages[n].to
        /\ tick.messages[n].req.prev_log_index + Len(tick.messages[n].req.entries) = index

\* C17 (a proposal is replicated at once): whenever propose_entry succeeds
\* on a Leader, the same Tick holds an AppendEntries request that runs up
\* to the new entry for every other server of members and learners that
\* has no request pending, whatever the kind of the entry, a
\* RemoveServer naming the Leader itself included.
C17_ReplicatedAtOnce ==
    [][(Proposing("Leader") /\ out'.ret.kind = "Ok") =>
          \A x \in OtherServers(node'[ApiSelf]) :
              (x \notin DOMAIN node[ApiSelf].state.servers
               \/ ~node[ApiSelf].state.servers[x].request_pending)
                  => SentUpTo(out'.tick, x, out'.ret.index)]_vars

\* C18 (a duplicate request): an append_entries request delivered again
\* right after the follower accepted it returns success and leaves the log
\* as it was, the entries beyond the request's last entry included.
C18_DuplicateIsNoop ==
    [][(/\ out.op = "append_entries"
        /\ out.ret.kind = "Ok"
        /\ out.ret.success
        /\ out'.op = "append_entries"
        /\ out'.req = out.req)
          => /\ out'.ret.kind = "Ok"
             /\ out'.ret.success
             /\ node'[ApiSelf].log = node[ApiSelf].log
             /\ ~out'.tick.new_entries]_vars

\* A request whose entry the log already held was accepted and appended
\* nothing
C18_Witness ==
    /\ out.op = "append_entries"
    /\ out.ret.kind = "Ok"
    /\ out.ret.success
    /\ ~out.tick.new_entries
    /\ Len(out.req.entries) >= 1
    /\ \A n \in 1..Len(out.req.entries) :
          log_term(node[ApiSelf].log, out.req.entries[n].index) = out.req.entries[n].term

\* C19 (metadata is marked dirty): a handler call that changes current_term,
\* voted_for or commit_index sets the Tick's meta flag, and every
\* request_vote that grants its vote returns with the flag set, its
\* response in the MustPersistMetadata wrapper.
C19_MetaMarked ==
    [][/\ (\/ node'[ApiSelf].current_term # node[ApiSelf].current_term
           \/ node'[ApiSelf].voted_for # node[ApiSelf].voted_for
           \/ node'[ApiSelf].commit_index # node[ApiSelf].commit_index)
          => out'.tick.meta
       /\ (out'.op = "request_vote" /\ out'.ret.vote_granted)
          => (out'.tick.meta /\ out'.ret.kind = "Vote")]_vars

\* An append_entries call raised commit_index and marked the metadata
C19_Witness ==
    /\ out.op = "append_entries"
    /\ out.tick.meta
    /\ out.ret.kind = "Ok"
    /\ out.ret.success
    /\ out.req.leader_commit >= 1
    /\ node[ApiSelf].commit_index >= 1

\* C20 (late responses): no call of request_vote_callback,
\* append_entries_callback or append_entries_noresponse panics, whenever
\* the response arrives.
C20_ResponsesNeverPanic ==
    out.op \in {"request_vote_callback", "append_entries_callback",
                "append_entries_noresponse"} => ~out.panic

\* C23 (padding to the next block): for block_size > 0,
\* block_size_remainder(block_size, end_offset) is the smallest r >= 0 with
\* end_offset + r a multiple of block_size: 0 on a multiple, otherwise
\* block_size - (end_offset mod block_size), so 0 <= r < block_size.
C23_SmallestPadding ==
    out.op = "block_size_remainder" =>
        LET b == out.req.block_size
            e == out.req.end_offset
            r == out.ret.value
        IN /\ r >= 0
           /\ r < b
           /\ (e + r) % b = 0
           /\ \A q \in 0..(r - 1) : (e + q) % b # 0
           /\ r = IF e % b = 0 THEN 0 ELSE b - (e % b)

\* An offset past a whole number of blocks, as 6 * bsize + 5 in the
\* function's test, is padded by bsize - 5
C23_Witness ==
    /\ out.op = "block_size_remainder"
    /\ out.req.end_offset = 2 * out.req.block_size + 5
    /\ out.ret.value = out.req.block_size - 5
    /\ out.ret.value > 0

\* The last call was an append_entries that returned success
Accepted == out.op = "append_entries" /\ out.ret.kind = "Ok" /\ out.ret.success

\* The index of the last entry the request covers: that of its last entry,
\* or prev_log_index for an empty batch
Covered(req) ==
    IF Len(req.entries) > 0 THEN req.entries[Len(req.entries)].index
    ELSE req.prev_log_index

\* C24 (commit advancement): after a successful append_entries with
\* req.leader_commit above the old commit_index, the new commit_index is
\* max(old commit_index, min(req.leader_commit, L)), L the index of the
\* last entry of the request, or prev_log_index for an empty batch.
C24_CommitFollowsRequest ==
    (Accepted /\ out.req.leader_commit > out.req.before.commit_index) =>
        node[ApiSelf].commit_index =
            Max(out.req.before.commit_index,
                Min(out.req.leader_commit, Covered(out.req)))

\* C25 (the last_log_index of a success): it is Some(local last index)
\* exactly when the local last index is above the index of the last entry of
\* the request (prev_log_index for an empty batch), and None otherwise.
C25_HintIffLonger ==
    Accepted =>
        out.ret.last_log_index =
            IF LastLogIndex(node[ApiSelf]) > Covered(out.req)
            THEN LastLogIndex(node[ApiSelf]) ELSE None

\* C27 (entries land, truncation only on conflict): after a successful
\* append_entries the log holds every entry of the request at its index
\* with its term.  With no entry of the request in conflict with the log,
\* every entry the log held is kept.  With a first conflict at index c,
\* c is above commit_index, the log is the old log below c followed by the
\* request's entries from c on, and a configuration change pending at c or
\* above is reverted.
C27_TruncateOnConflict ==
    Accepted =>
        LET old == out.req.before
            new == node[ApiSelf]
            req == out.req
            c == FirstConflict(old, req)
        IN /\ \A n \in 1..Len(req.entries) :
                 log_term(new.log, req.entries[n].index) = req.entries[n].term
           /\ c = 0 => /\ Len(new.log) >= Len(old.log)
                       /\ SubSeq(new.log, 1, Len(old.log)) = old.log
           /\ c >= 1 =>
                 /\ c > old.commit_index
                 /\ Len(new.log) = Covered(req)
                 /\ SubSeq(new.log, 1, c - 1) = SubSeq(old.log, 1, c - 1)
                 /\ \A n \in 1..Len(req.entries) :
                       req.entries[n].index >= c =>
                           new.log[req.entries[n].index] = req.entries[n]
                 /\ (old.config.pending.some /\ old.config.pending.last_change >= c) =>
                       /\ ~new.config.pending.some
                       /\ new.config.value.members = old.config.pending.members
                       /\ new.config.value.learners = old.config.pending.learners

\* A request of one entry in conflict with the first of two uncommitted
\* entries, the second a configuration change, was accepted: both entries
\* are gone and server 4 is no learner any more
C27_Witness ==
    /\ Accepted
    /\ Len(out.req.before.log) = 2
    /\ out.req.before.config.pending.some
    /\ 4 \in out.req.before.config.value.learners
    /\ FirstConflict(out.req.before, out.req) = 1
    /\ Len(out.req.entries) = 1
    /\ Len(node[ApiSelf].log) = 1
    /\ node[ApiSelf].config.value.learners = {}

\* C28 (a leader holds what it committed): a module that is Candidate or
\* Leader has commit_index <= last_log_index, whatever commit_index and
\* log it was constructed with.
C28_LeaderHoldsCommitted ==
    Role(ApiSelf) \in {"Candidate", "Leader"} =>
        node[ApiSelf].commit_index <= LastLogIndex(node[ApiSelf])

\* A Leader whose commit_index is at the last entry of its log
C28_Witness ==
    /\ Role(ApiSelf) = "Leader"
    /\ node[ApiSelf].commit_index >= 1
    /\ node[ApiSelf].commit_index = LastLogIndex(node[ApiSelf])

\* The indexes above commit_index `from` that the Leader m may commit by
\* counting: of its current term, and held by a majority of the voting
\* members, m itself counted once the index is durable in its own log
Countable(m, from) ==
    {ci \in (from + 1)..LastLogIndex(m) :
        /\ log_term(m.log, ci) = m.current_term
        /\ Cardinality({x \in m.config.value.members :
                           IF x = m.id THEN unwrap_or(log_match_index(m), 0) >= ci
                           ELSE /\ x \in DOMAIN m.state.servers
                                /\ m.state.servers[x].match_index >= ci})
              >= (Cardinality(m.config.value.members) \div 2) + 1}

\* C29 (commit by counting): a call that leaves the module Leader of the
\* same term with a higher commit_index has moved it to the largest index
\* above the old commit_index, up to the last index, whose term is the
\* current term and which a majority of the voting members hold (the
\* leader by its durable match index, the others by their progress,
\* learners never); entries of earlier terms are committed only below it.
C29_CommitByCounting ==
    [][(/\ Role(ApiSelf) = "Leader"
        /\ node'[ApiSelf].state.role = "Leader"
        /\ node'[ApiSelf].current_term = node[ApiSelf].current_term
        /\ node'[ApiSelf].commit_index > node[ApiSelf].commit_index)
          => /\ node'[ApiSelf].commit_index
                   \in Countable(node'[ApiSelf], node[ApiSelf].commit_index)
             /\ \A ci \in Countable(node'[ApiSelf], node[ApiSelf].commit_index) :
                   ci <= node'[ApiSelf].commit_index]_vars

\* A Leader of term 2 has committed its entry of term 2 at index 2, and
\* with it the entry of term 1 below, while peer 3 is a learner
C29_Witness ==
    /\ Role(ApiSelf) = "Leader"
    /\ node[ApiSelf].current_term = 2
    /\ node[ApiSelf].commit_index = 2
    /\ node[ApiSelf].log[1].term = 1
    /\ node[ApiSelf].log[2].term = 2
    /\ node[ApiSelf].config.value.learners = {3}
    /\ out.op = "cycle"
    /\ out.tick.meta

\* C21 (a single member commits alone): in a cluster of one member, every
\* proposal that propose_command accepted is eventually reported Commited
\* by proposal_status, the host flushing the log and calling cycle.
C21_SoloCommits ==
    \A i \in 1..ProposeMaxLog, t \in 1..ProposeMaxTerm :
        (/\ out.op = "propose_entry"
         /\ out.req.data.kind = "Command"
         /\ out.ret.kind = "Ok"
         /\ out.ret.index = i
         /\ out.ret.term = t)
            ~> (proposal_status(node[ApiSelf], [index |-> i, term |-> t]) = "Commited")

\* The only member leads, and its second entry, a client's command, is
\* committed with no other server involved
C21_Witness ==
    /\ node[ApiSelf].config.value.members = {ApiSelf}
    /\ Role(ApiSelf) = "Leader"
    /\ Len(node[ApiSelf].log) = 2
    /\ node[ApiSelf].log[2].data.kind = "Command"
    /\ proposal_status(node[ApiSelf], [index |-> 2, term |-> node[ApiSelf].log[2].term])
          = "Commited"

\* The RequestVote of candidate a in term 1, and its first heartbeat
C22_VoteRequest(a) ==
    [term |-> 1, candidate_id |-> a, last_log_index |-> 0, last_log_term |-> 0]

C22_Heartbeat(a, msg) ==
    /\ msg.type = "AppendEntries"
    /\ msg.from = a
    /\ msg.req.term = 1
    /\ msg.req.prev_log_index = 0
    /\ msg.req.entries = <<>>

C22_Campaigns ==
    \A a \in Cluster :
        (Role(a) = "Follower" /\ Role(a)' = "Candidate") =>
            /\ node'[a].current_term = 1
            /\ node'[a].voted_for = a
            /\ {<<msg.to, msg.req>> : msg \in {x \in msgs' : x.type = "RequestVote"}}
                  = {<<j, C22_VoteRequest(a)>> : j \in Cluster \ {a}}

C22_Wins ==
    \A a \in Cluster :
        (Role(a) = "Candidate" /\ Role(a)' = "Leader") =>
            /\ node'[a].current_term = 1
            /\ node'[a].log = <<>>
            /\ \A j \in Cluster \ {a} :
                  \E msg \in msgs' \ msgs : msg.to = j /\ C22_Heartbeat(a, msg)

C22_Granted ==
    \A msg \in msgs : msg.type = "RequestVoteResponse" =>
        /\ Role(msg.to) # "Follower"
        /\ msg.from # msg.to
        /\ msg.resp.vote_granted
        /\ msg.resp.term = 1

C22_Leads(a) ==
    /\ Role(a) = "Leader"
    /\ node[a].current_term = 1
    /\ node[a].log = <<>>
    /\ {<<j, 1, a>> : j \in Cluster \ {a}} \subseteq votes

\* C22 (an uncontested election): three members at term 0 with empty logs,
\* only one member, a, timing out and every message delivered.  a becomes
\* Candidate of term 1 with its own vote and one RequestVote{term 1,
\* last_log_index 0, last_log_term 0} for the two others; both grant; a ends
\* Leader of term 1, its log still empty, and the call that makes it Leader
\* sends an AppendEntries heartbeat to the two others.
C22_UncontestedElection ==
    /\ [][C22_Campaigns /\ C22_Wins]_vars
    /\ []C22_Granted
    /\ <>[](\E a \in Cluster : C22_Leads(a))

\* A member leads term 1 on the votes of both others, and a follower has
\* answered its first heartbeat
C22_Witness ==
    \E a \in Cluster :
        /\ C22_Leads(a)
        /\ \E msg \in msgs : /\ msg.type = "AppendEntriesResponse"
                             /\ msg.to = a
                             /\ msg.resp.success

\* The follower's answer to the request msg, were it delivered now
C26_Answer(msg) == append_entries(Call(node[msg.to], FALSE, FALSE), msg.req)

\* msg is refused for the term of its previous entry, by a follower of the
\* leader's term, and its sender still leads that term and awaits the answer
C26_Mismatch(msg) ==
    /\ msg.type = "AppendEntries"
    /\ Alive(msg.to) /\ Alive(msg.from)
    /\ log_term(node[msg.to].log, msg.req.prev_log_index) # None
    /\ log_term(node[msg.to].log, msg.req.prev_log_index) # msg.req.prev_log_term
    /\ ~C26_Answer(msg).panic
    /\ C26_Answer(msg).ret.kind = "Ok"
    /\ ~C26_Answer(msg).ret.success
    /\ C26_Answer(msg).ret.term = msg.req.term
    /\ Role(msg.from) = "Leader"
    /\ node[msg.from].current_term = msg.req.term
    /\ msg.to \in DOMAIN node[msg.from].state.servers
    /\ node[msg.from].state.servers[msg.to].request_pending

\* The leader's handling of that answer
C26_Handled(msg) ==
    append_entries_callback(Call(node[msg.from], FALSE, FALSE),
                            msg.to, msg.last_index, C26_Answer(msg).ret)

\* C26 (a rejection hint converges in one round): a follower that refuses an
\* AppendEntries for the term of its previous entry answers success = false
\* with last_log_index = its commit_index and keeps its log; the leader of
\* the same term that handles the answer sets next_index to that commit_index
\* + 1, and the AppendEntries it sends next to the follower, whose state has
\* not changed, is accepted.
C26_HintsConverge ==
    \A msg \in msgs : C26_Mismatch(msg) =>
        /\ C26_Answer(msg).ret.last_log_index = node[msg.to].commit_index
        /\ C26_Answer(msg).m.log = node[msg.to].log
        /\ ~C26_Handled(msg).panic
        /\ C26_Handled(msg).m.state.role = "Leader"
        /\ C26_Handled(msg).m.state.servers[msg.to].next_index
              = node[msg.to].commit_index + 1
        /\ \E n \in 1..Len(C26_Handled(msg).t.messages) :
              LET next == C26_Handled(msg).t.messages[n]
                  again == append_entries(Call(C26_Answer(msg).m, FALSE, FALSE), next.req)
              IN /\ next.type = "AppendEntries"
                 /\ msg.to \in next.to
                 /\ ~again.panic
                 /\ again.ret.kind = "Ok"
                 /\ again.ret.success

\* The servers the AppendEntries number n of the last call's Tick addresses
C30_Addressed(n) ==
    IF out.tick.messages[n].type = "AppendEntries" THEN out.tick.messages[n].to ELSE {}

\* At most one AppendEntries of the module is outstanding with each server
C30_OneOutstanding ==
    \A j \in ApiPeers : Cardinality({x \in msgs : x.to = j}) <= 1

\* No call addresses a server whose request was pending when the call began,
\* the server whose answer the call handles excepted
C30_PendingSkipped ==
    (out.op # "none" /\ out.req.before.state.role = "Leader") =>
        \A n \in 1..Len(out.tick.messages) : \A j \in C30_Addressed(n) :
            \/ j \notin DOMAIN out.req.before.state.servers
            \/ ~out.req.before.state.servers[j].request_pending
            \/ /\ out.op \in {"append_entries_callback", "append_entries_noresponse"}
               /\ j = out.id

\* No Tick holds two AppendEntries for one server
C30_OncePerTick ==
    \A n \in 1..Len(out.tick.messages), k \in 1..Len(out.tick.messages) :
        n # k => C30_Addressed(n) \cap C30_Addressed(k) = {}

\* C30 (flight control): at any time at most one AppendEntries that the
\* module sent to a server is outstanding, that is, sent and not yet answered
\* through append_entries_callback or append_entries_noresponse;
\* replicate_entries addresses no server whose request_pending is true and
\* no server twice in one Tick.
C30_FlightControl ==
    /\ C30_OneOutstanding
    /\ C30_PendingSkipped
    /\ C30_OncePerTick

\* start_election and the cycle of an elapsed election timeout, called on the
\* module as it is
C31_Started == start_election(ApiCall(FALSE, FALSE))
C31_TimedOut == cycle(ApiCall(TRUE, FALSE))

\* The module is a Candidate that no server has refused in this election
C31_Unrefused ==
    /\ node[ApiSelf].state.role = "Candidate"
    /\ ~node[ApiSelf].state.some_rejected

\* s asks every other member for its vote in the given term
C31_AsksVotes(s, term) ==
    \E n \in 1..Len(s.t.messages) :
        /\ s.t.messages[n].type = "RequestVote"
        /\ s.t.messages[n].to = ApiPeers
        /\ s.t.messages[n].req.term = term
        /\ s.t.messages[n].req.candidate_id = ApiSelf

\* C31 (an election is retried in its term): start_election on a Candidate
\* that no server has refused keeps current_term and voted_for and sends the
\* RequestVote of the same term again; on a Follower, a Leader or a refused
\* Candidate it adds 1 to current_term, votes for itself and marks meta
\* dirty.  So the timeout of an unrefused Candidate keeps its term and the
\* timeout of a refused one takes the next term.
C31_RetrySameTerm ==
    (Alive(ApiSelf) /\ ~C31_Started.panic) =>
        /\ IF C31_Unrefused
           THEN /\ C31_Started.m.current_term = node[ApiSelf].current_term
                /\ C31_Started.m.voted_for = node[ApiSelf].voted_for
                /\ C31_AsksVotes(C31_Started, node[ApiSelf].current_term)
           ELSE /\ C31_Started.m.current_term = node[ApiSelf].current_term + 1
                /\ C31_Started.m.voted_for = ApiSelf
                /\ C31_Started.t.meta
                /\ C31_AsksVotes(C31_Started, node[ApiSelf].current_term + 1)
        /\ node[ApiSelf].state.role = "Candidate" =>
              C31_TimedOut.m.current_term =
                  node[ApiSelf].current_term
                      + (IF node[ApiSelf].state.some_rejected THEN 1 ELSE 0)

\* timeout_now has run on a Candidate of term 1 that no server had refused:
\* it is still Candidate of term 1 and the call left meta clean
C31_Witness ==
    /\ out.op = "timeout_now"
    /\ ~out.panic
    /\ ~out.tick.meta
    /\ node[ApiSelf].state.role = "Candidate"
    /\ node[ApiSelf].current_term = 1
    /\ node[ApiSelf].voted_for = ApiSelf

\* request_vote_callback called on the module as it is
C32_Callback(from_id, resp) == request_vote_callback(ApiCall(FALSE, FALSE), from_id, resp)

\* The response counts: the module is Candidate of the term of the response
C32_Counts(resp) ==
    /\ node[ApiSelf].state.role = "Candidate"
    /\ resp.term = node[ApiSelf].current_term

\* The grants of the election after this response
C32_Grants(from_id, resp) ==
    node[ApiSelf].state.votes_received
        \cup (IF resp.vote_granted THEN {from_id} ELSE {})

\* Server j in s: the progress of a new leadership, with a request pending
\* only if this Tick holds one for j
C32_FreshProgress(s, j) ==
    /\ s.m.state.servers[j].next_index = LastLogIndex(node[ApiSelf]) + 1
    /\ s.m.state.servers[j].match_index = 0
    /\ s.m.state.servers[j].request_pending
          <=> \E n \in 1..Len(s.t.messages) :
                 s.t.messages[n].type = "AppendEntries" /\ j \in s.t.messages[n].to

C32_VoteResponse(from_id, resp) ==
    LET m == node[ApiSelf]
        s == C32_Callback(from_id, resp)
    IN  /\ ~s.panic
        /\ (s.m.state.role = "Leader" /\ m.state.role # "Leader") =>
              /\ C32_Counts(resp)
              /\ resp.vote_granted
              /\ 1 + Cardinality(C32_Grants(from_id, resp))
                    >= (Cardinality(m.config.value.members) \div 2) + 1
              /\ DOMAIN s.m.state.servers = config_iter(m.config.value) \ {ApiSelf}
              /\ \A j \in DOMAIN s.m.state.servers : C32_FreshProgress(s, j)
        /\ (C32_Counts(resp) /\ s.m.state.role = "Candidate") =>
              /\ s.m.state.votes_received = C32_Grants(from_id, resp)
              /\ 1 + Cardinality(C32_Grants(from_id, resp))
                    < (Cardinality(m.config.value.members) \div 2) + 1
        /\ (~C32_Counts(resp) /\ resp.term <= m.current_term) => s.m = m
        /\ resp.term > m.current_term => s.m.state.role = "Follower"

\* Between two calls, only request_vote_callback adds to the grants of an
\* election, and only a Candidate becomes Leader
C32_OnlyResponsesCount ==
    /\ (node[ApiSelf].state.role = "Candidate" /\ node'[ApiSelf].state.role = "Candidate"
           /\ ~(node'[ApiSelf].state.votes_received \subseteq node[ApiSelf].state.votes_received))
         => out'.op = "request_vote_callback"
    /\ (node[ApiSelf].state.role # "Leader" /\ node'[ApiSelf].state.role = "Leader")
         => /\ out'.op = "request_vote_callback"
            /\ node[ApiSelf].state.role = "Candidate"

\* C32 (a majority of grants makes the Leader): a Candidate becomes Leader
\* only when 1 + the number of distinct other servers whose grant for its
\* current term was delivered reaches floor(|members| / 2) + 1; a second
\* grant of one server counts once, a response of another term or to a module
\* that is not Candidate is ignored, and the new Leader starts every other
\* server at next_index = last_log_index + 1, match_index = 0, no request
\* pending.
C32_LeaderByMajority ==
    /\ [](Alive(ApiSelf) =>
            \A from_id \in ApiPeers, resp \in ApiVoteResponses :
                C32_VoteResponse(from_id, resp))
    /\ [][C32_OnlyResponsesCount]_vars

\* The grant of server 3 has made the module Leader of five members: the
\* grant of server 2 alone had not
C32_Witness ==
    /\ out.op = "request_vote_callback"
    /\ out.id = 3
    /\ node[ApiSelf].state.role = "Leader"
    /\ node[ApiSelf].config.value.members = QuorumMembers
    /\ \A j \in QuorumMembers \ {ApiSelf} :
          /\ node[ApiSelf].state.servers[j].match_index = 0
          /\ node[ApiSelf].state.servers[j].request_pending

\* cycle called on the module as it is
C33_Cycle(timedOut, hbDue) == cycle(ApiCall(timedOut, hbDue))

\* The inactive path: next_tick = 1 s, the module as it was, nothing sent
C33_Idle(s) ==
    /\ s.m = node[ApiSelf]
    /\ s.t = [Tick_empty EXCEPT !.next_tick = "1s"]

\* C33 as stated (the inactivity guard of cycle): cycle takes the inactive
\* path, next_tick = 1 s with no state changed and nothing sent, if members
\* is empty or the module's id is in neither members nor learners; in every
\* other case, that of a module that is only a learner included, it
\* dispatches on the role.
C33_Original ==
    Alive(ApiSelf) =>
        \A timedOut \in BOOLEAN, hbDue \in BOOLEAN :
            ~C33_Cycle(timedOut, hbDue).panic =>
                (C33_Idle(C33_Cycle(timedOut, hbDue))
                    <=> \/ node[ApiSelf].config.value.members = {}
                        \/ ApiSelf \notin config_iter(node[ApiSelf].config.value))

\* C33 amended: cycle takes the inactive path exactly if members is empty or
\* the module's id is not in members; a module that is only a learner takes
\* the inactive path too.
C33_InactiveOutsideMembers ==
    Alive(ApiSelf) =>
        \A timedOut \in BOOLEAN, hbDue \in BOOLEAN :
            ~C33_Cycle(timedOut, hbDue).panic =>
                (C33_Idle(C33_Cycle(timedOut, hbDue))
                    <=> \/ node[ApiSelf].config.value.members = {}
                        \/ ApiSelf \notin node[ApiSelf].config.value.members)

\* cycle has run on a learner that timeout_now had made Candidate: it set
\* next_tick and nothing else
C33_Witness ==
    /\ out.op = "cycle"
    /\ ~out.panic
    /\ out.tick = [Tick_empty EXCEPT !.next_tick = "1s"]
    /\ node[ApiSelf].config.value.learners = {ApiSelf}
    /\ node[ApiSelf].config.value.members = ApiPeers
    /\ node[ApiSelf].state.role = "Candidate"

\* C34 (cycle is idempotent): a second cycle right after a first, at the
\* same Tick time, leaves the module as the first left it (role, term,
\* voted_for, commit_index, log, progress) and adds no message and no new
\* entry to the Tick.
C34_CycleIdempotent ==
    Alive(ApiSelf) =>
        \A timedOut \in BOOLEAN, hbDue \in BOOLEAN :
            LET once == cycle(ApiCall(timedOut, hbDue))
                twice == cycle(once)
            IN ~once.panic =>
                  /\ ~twice.panic
                  /\ twice.m = once.m
                  /\ twice.t.messages = once.t.messages
                  /\ twice.t.new_entries = once.t.new_entries

\* cycle has just sent the heartbeats of a Leader whose peers had answered:
\* each has a request pending again, which a second cycle finds
C34_Witness ==
    /\ out.op = "cycle"
    /\ ~out.panic
    /\ node[ApiSelf].state.role = "Leader"
    /\ node[ApiSelf].config.value.members = ApiMembers
    /\ \A j \in ApiPeers : node[ApiSelf].state.servers[j].request_pending
    /\ out.tick.next_tick = "heartbeat"

\* What a call that received the term t > current_term has left: the term is
\* adopted and meta is dirty; the old vote is gone (voted_for is None, the
\* candidate the call granted, or the module itself in a later term); the
\* module is Follower of term t, or the sole voting member in a later term
C35_SteppedDown(s, t, granted) ==
    /\ s.m.current_term >= t
    /\ s.t.meta
    /\ s.m.voted_for \in ({None} \cup granted
                            \cup (IF s.m.current_term > t THEN {ApiSelf} ELSE {}))
    /\ IF s.m.state.role = "Follower"
       THEN s.m.current_term = t
       ELSE /\ s.m.current_term > t
            /\ s.m.config.value.members = {ApiSelf}

\* C35 (a higher term is adopted): whenever request_vote,
\* request_vote_callback, append_entries or append_entries_callback receives
\* a term t > current_term, on return current_term >= t, the vote of the old
\* term is cleared, the Tick marks meta dirty and the module is neither
\* Leader nor Candidate of a term <= t: it is Follower of term t, unless it
\* is the sole voting member and has elected itself in a term > t.
C35_HigherTermAdopted ==
    Alive(ApiSelf) =>
        LET m == node[ApiSelf]
            c == ApiCall(FALSE, FALSE)
        IN  /\ \A req \in ApiVoteRequests :
                   LET s == request_vote(c, req)
                   IN (req.term > m.current_term /\ ~s.panic) =>
                         C35_SteppedDown(s, req.term,
                             IF s.ret.vote_granted THEN {req.candidate_id} ELSE {})
            /\ \A from_id \in ApiPeers, resp \in ApiVoteResponses :
                   LET s == request_vote_callback(c, from_id, resp)
                   IN (resp.term > m.current_term /\ ~s.panic) =>
                         C35_SteppedDown(s, resp.term, {})
            /\ \A req \in ApiAppendRequests :
                   LET s == append_entries(c, req)
                   IN (req.term > m.current_term /\ ~s.panic) =>
                         C35_SteppedDown(s, req.term, {})
            /\ \A last_index \in 0..ApiMaxLog, resp \in ApiAppendResponses :
                   LET s == append_entries_callback(c, ApiResponder, last_index, resp)
                   IN (resp.term > m.current_term /\ ~s.panic) =>
                         C35_SteppedDown(s, resp.term, {})

\* A member of three has handled an AppendEntries of term 2 that marked
\* meta dirty: it is Follower of term 2 with no vote cast
C35_Witness ==
    /\ out.op = "append_entries"
    /\ ~out.panic
    /\ out.req.term = 2
    /\ out.tick.meta
    /\ node[ApiSelf].config.value.members = ApiMembers
    /\ node[ApiSelf].state.role = "Follower"
    /\ node[ApiSelf].current_term = 2
    /\ node[ApiSelf].voted_for = None

\* C36 (start_election precondition): start_election is entered only where
\* can_be_leader holds, so that timeout_now delivered to the module in any
\* state returns without panicking, a follower whose commit_index is beyond
\* its last log index included.
C36_TimeoutNowReturns ==
    /\ out.op = "timeout_now" => ~out.panic
    /\ Alive(ApiSelf) => ~timeout_now(ApiCall(FALSE, FALSE)).panic

\* The outcome of request_vote for a request of another candidate on a
\* module that is Candidate or Leader: no panic; a request of a term not
\* above current_term is refused and changes neither role nor vote; a
\* granted request has made the module a Follower
C37_Requested(req) ==
    LET m == node[ApiSelf]
        s == request_vote(ApiCall(FALSE, FALSE), req)
    IN  /\ ~s.panic
        /\ req.term <= m.current_term =>
              /\ ~s.ret.vote_granted
              /\ s.m.state.role = m.state.role
              /\ s.m.voted_for = ApiSelf
        /\ s.ret.vote_granted => s.m.state.role = "Follower"

\* C37 (a Candidate or Leader holds its own vote): a module that is Candidate
\* or Leader has voted_for = Some(own id) in its current_term; request_vote
\* from another candidate is never granted by it while it is Candidate or
\* Leader, and the panic "Granted vote but did not transition back to being
\* a follower" does not happen for such a request.
C37_OwnVoteHeld ==
    (Alive(ApiSelf) /\ Role(ApiSelf) \in {"Candidate", "Leader"}) =>
        /\ node[ApiSelf].voted_for = ApiSelf
        /\ node[ApiSelf].current_term >= 1
        /\ \A req \in ApiVoteRequests :
               req.candidate_id # ApiSelf => C37_Requested(req)

\* A Candidate has refused the vote to a peer that asked in the
\* Candidate's own term, and is Candidate still
C37_Witness ==
    /\ out.op = "request_vote"
    /\ ~out.panic
    /\ out.id \in ApiPeers
    /\ ~out.ret.vote_granted
    /\ out.ret.term = node[ApiSelf].current_term
    /\ Role(ApiSelf) = "Candidate"
    /\ node[ApiSelf].voted_for = ApiSelf

\* The module is a voting member of its current configuration
C38_Member == ApiSelf \in node[ApiSelf].config.value.members

\* A step that makes the module Leader ends in a state where it is a member
C38_Elected ==
    (Role(ApiSelf) # "Leader" /\ Role(ApiSelf)' = "Leader") => C38_Member'

\* C38 (only a voting member leads): the module becomes Leader only in a
\* state where its own id is in the members of its current configuration; a
\* learner and a server outside the configuration never become Leader, also
\* not after timeout_now has made them Candidate and votes were granted.
C38_OnlyMembersLead == [][C38_Elected]_vars

\* A learner that timeout_now made Candidate holds the grants of both voting
\* members and is Candidate still
C38_Witness ==
    /\ out.op = "request_vote_callback"
    /\ ~out.panic
    /\ node[ApiSelf].config.value.learners = {ApiSelf}
    /\ node[ApiSelf].config.value.members = ApiPeers
    /\ Role(ApiSelf) = "Candidate"
    /\ node[ApiSelf].state.votes_received = ApiPeers

\* The responses that may answer the AppendEntries msg the module sent: a
\* success in the request's term, or the refusal of a peer in a later term
C39_Answers(msg) ==
    {resp \in {[term |-> term, success |-> success, last_log_index |-> None] :
                  term \in 1..StaleMaxTerm, success \in BOOLEAN} :
        /\ resp.success <=> resp.term = msg.term
        /\ resp.term >= msg.term}

\* The progress of server msg.to once the module has taken resp for msg
C39_Updated(msg, resp) ==
    progress_update(observe_term(ApiCall(FALSE, FALSE), resp.term)
                        .m.state.servers[msg.to],
                    msg.last_index, resp)

\* The module is Leader still once it has seen the term of resp, and keeps
\* a progress entry for the sender of the response
C39_Taken(msg, resp) ==
    LET s == observe_term(ApiCall(FALSE, FALSE), resp.term)
    IN /\ s.m.state.role = "Leader"
       /\ msg.to \in DOMAIN s.m.state.servers

\* C39 (next_index stays positive): on a Leader every progress entry has
\* next_index >= 1, in every state and after the progress update of
\* append_entries_callback for any response that arrives, late or repeated,
\* to an AppendEntries the module sent; next_index - 1 never underflows.
C39_NextIndexPositive ==
    (Alive(ApiSelf) /\ Role(ApiSelf) = "Leader") =>
        /\ \A j \in DOMAIN node[ApiSelf].state.servers :
               node[ApiSelf].state.servers[j].next_index >= 1
        /\ \A msg \in {x \in msgs : x.type = "AppendEntries"} :
               \A resp \in C39_Answers(msg) :
                   C39_Taken(msg, resp) => C39_Updated(msg, resp).next_index >= 1

\* The module is Leader of one term before and after the step, and the
\* match_index it keeps for server j is higher after it
C40_Raised(j) ==
    /\ Role(ApiSelf) = "Leader"
    /\ Role(ApiSelf)' = "Leader"
    /\ node'[ApiSelf].current_term = node[ApiSelf].current_term
    /\ j \in DOMAIN node[ApiSelf].state.servers
    /\ j \in DOMAIN node'[ApiSelf].state.servers
    /\ node'[ApiSelf].state.servers[j].match_index
           > node[ApiSelf].state.servers[j].match_index

\* The step is the callback for server j's answer to an AppendEntries that
\* the module sent in its current term
C40_AnswerOfThisTerm(j) ==
    /\ out'.op = "append_entries_callback"
    /\ out'.id = j
    /\ out'.req.term = node'[ApiSelf].current_term

\* While the module stays Leader of a term no match_index goes down
C40_Kept ==
    (/\ Role(ApiSelf) = "Leader"
     /\ Role(ApiSelf)' = "Leader"
     /\ node'[ApiSelf].current_term = node[ApiSelf].current_term)
    => \A j \in DOMAIN node[ApiSelf].state.servers
                \cap DOMAIN node'[ApiSelf].state.servers :
           node'[ApiSelf].state.servers[j].match_index
               >= node[ApiSelf].state.servers[j].match_index

\* C40 (match_index): on a Leader the match_index of a server is raised only
\* by the success response to an AppendEntries the module sent in its
\* current term of leadership, never by the answer to a request of an
\* earlier term; it does not decrease while the module stays Leader and it
\* is at most the Leader's last log index.
C40_MatchIndexOfThisTerm ==
    /\ [][(\A j \in ApiPeers : C40_Raised(j) => C40_AnswerOfThisTerm(j))
          /\ C40_Kept]_vars
    /\ [](Role(ApiSelf) = "Leader" =>
             \A j \in DOMAIN node[ApiSelf].state.servers :
                 node[ApiSelf].state.servers[j].match_index
                     <= LastLogIndex(node[ApiSelf]))

====
